---- MODULE Spec2Model ----
(***************************************************************************)
(* State-machine model of the context engine and the workflow orchestrator *)
(* of spec_driven_agent (core/context_engine.py,                           *)
(* core/consistency_validator.py, core/symbolic_engine.py,                 *)
(* core/workflow_orchestrator.py and the models they use).                 *)
(*                                                                         *)
(* Every public coroutine is one action: asyncio runs a coroutine without  *)
(* suspension until it awaits something that really blocks, and none of    *)
(* the modelled coroutines does while the lock is free.  A call ends by    *)
(* returning or by raising; `last` records how the latest call ended and   *)
(* `calls` counts the completed calls (it is also the logical clock that   *)
(* datetime.now()/utcnow() read).                                          *)
(*                                                                         *)
(* The specifications share the state:                                     *)
(*   Spec           the public calls, one call after the other;            *)
(*   TaskSpec       the calls as asyncio tasks: a coroutine that enters    *)
(*                  `async with <lock>` waits until the lock is free, and  *)
(*                  a task may be suspended at the awaits of               *)
(*                  update_context;                                        *)
(*   ValidatorSpec  the consistency validator applied to the contexts a    *)
(*                  caller can build;                                      *)
(*   ResolverSpec   the reference resolver and its cache;                  *)
(*   TrackerSpec    the state manager next to the orchestrator;            *)
(*   BatchSpec      _apply_updates on the contexts a caller holds;         *)
(*   ArtifactSpec   the artifact manager: artifacts created and updated;   *)
(*   RelationSpec   the artifact manager: artifacts related to each other; *)
(*   LockedSpec     the tasks of TaskSpec on the calls that take a lock;   *)
(*   FairLockedSpec LockedSpec on fewer calls, every task scheduled        *)
(*                  again and again (the event loop runs each ready task); *)
(*   ProgressSpec   one workflow moved through many transitions and its    *)
(*                  status read;                                           *)
(*   UpdateSpec     the state manager: tracked states updated.             *)
(***************************************************************************)
EXTENDS Integers, Sequences, FiniteSets, TLC

\* ------------------------------------------------------------------ bounds
MaxCalls == 3
MaxBatch == 2
MaxTasks == 2
MaxTaskCalls == 3
MaxReferences == 2
MaxWorkflows == 1
MaxProgressCalls == 11

\* ------------------------------------------------------- values and helpers
NoneId == 0
PresetContextId == 100
NoneStr == ""
\* asyncio.Lock(): no task holds the lock
NoTask == 0
\* None where a SpecDrivenContext is expected
NoContext == [id |-> NoneId]

NoTime == [t |-> 0, aware |-> FALSE]
\* datetime.now(timezone.utc): an offset-aware timestamp
AwareNow(t) == [t |-> t, aware |-> TRUE]
\* datetime.utcnow(): an offset-naive timestamp
NaiveNow(t) == [t |-> t, aware |-> FALSE]

EmptyMap == <<>>
Range(s) == {s[i] : i \in DOMAIN s}
DictUpdate_keeping(d, other) ==
    [k \in (DOMAIN d) \cup (DOMAIN other) |->
        IF k \in DOMAIN d THEN d[k] ELSE other[k]]
\* dict.update(other): shallow key merge, keys of `other` win
DictUpdate(d, other) ==
    [k \in (DOMAIN d) \cup (DOMAIN other) |->
        IF k \in DOMAIN other THEN other[k] ELSE d[k]]
\* list.index(x); the caller checks membership first (ValueError otherwise)
index(s, x) == CHOOSE i \in DOMAIN s : s[i] = x /\ \A j \in DOMAIN s : s[j] = x => i <= j

\* ------------------------------------------------------------ workflow model
DISCOVERY == "discovery"
PLANNING == "planning"
ARCHITECTURE == "architecture"
DESIGN == "design"
DEVELOPMENT == "development"
TESTING == "testing"
DEPLOYMENT == "deployment"
COMPLETED == "completed"

phase_order ==
    <<DISCOVERY, PLANNING, ARCHITECTURE, DESIGN, DEVELOPMENT, TESTING, DEPLOYMENT, COMPLETED>>

\* WorkflowPhase.__dict__.values(): the eight phase strings, __module__ and
\* __doc__ (the __dict__/__weakref__ descriptors equal no argument)
WorkflowPhaseDictValues ==
    Range(phase_order) \cup {"spec_driven_agent.models.workflow", "Workflow phase enumeration."}

\* the target_phase arguments a caller passes: every phase, a string that is
\* a class attribute but no phase, and a string that is neither
Targets == Range(phase_order) \cup {"Workflow phase enumeration.", "bogus"}

Reasons == {"User request", "user"}

Projects == {1, 2}

VARIABLES
    workflows,           \* orchestrator.workflows: workflow id -> WorkflowInstance
    workflow_states,     \* orchestrator.workflow_states: workflow id -> id of its WorkflowState object
    state_objs,          \* every WorkflowState object created so far, by its id
    transition_history,  \* orchestrator.transition_history: workflow id -> list of WorkflowTransition
    contexts,            \* engine.contexts: context id -> SpecDrivenContext
    update_history,      \* engine.update_history: context id -> list of ContextUpdate ids
    symbolic_registry,   \* engine.symbolic_engine.symbolic_registry, as a list
    processed,           \* ids of the ContextUpdate objects with processed == True
    projects,            \* the caller's Project objects: project id -> Project
    pydantic,            \* which pydantic the interpreter imports: the bundled stub or the package
    calls,               \* number of completed calls
    last,                \* how the latest call ended
    context_lock,        \* engine.context_lock: the task holding it, or NoTask
    workflow_lock,       \* orchestrator.workflow_lock: the task holding it, or NoTask
    tasks,               \* task -> the call of a locking coroutine it is running
    caller_context,      \* a SpecDrivenContext the caller built and holds
    resolution_cache,    \* reference_resolver.resolution_cache: reference_id -> resolved data
    resolutions,         \* number of _perform_resolution calls made so far
    references,          \* the SymbolicReference objects the caller built and holds
    resolved_data,       \* per reference, what its latest resolution returned to the caller
    states,              \* state_manager.states: workflow id -> id of its WorkflowState object
    state_history,       \* state_manager.state_history: workflow id -> list of WorkflowState ids
    manager_objs,        \* every WorkflowState object the state manager created, by its id
    artifacts,           \* artifact_manager.artifacts: artifact_id -> Artifact
    metadata,            \* artifact_manager.metadata: artifact_id -> ArtifactMetadata
    files                \* storage_path: artifact_id -> what <artifact_id>.json holds

vars == <<workflows, workflow_states, state_objs, transition_history, contexts,
          update_history, symbolic_registry, processed, projects, pydantic, calls, last,
          context_lock, workflow_lock, tasks, caller_context,
          resolution_cache, resolutions, references, resolved_data, states, state_history, manager_objs,
          artifacts, metadata, files>>

task_vars == <<context_lock, workflow_lock, tasks>>

resolver_vars == <<resolution_cache, resolutions, references, resolved_data>>
manager_vars == <<states, state_history, manager_objs>>
artifact_vars == <<artifacts, metadata, files>>
component_vars == <<resolver_vars, manager_vars, artifact_vars>>

orch_vars == <<workflows, workflow_states, state_objs, transition_history>>
engine_vars == <<contexts, update_history, symbolic_registry, processed>>

\* the orchestrator's dictionaries as one value
Orch == [workflows |-> workflows, workflow_states |-> workflow_states,
         state_objs |-> state_objs, transition_history |-> transition_history]

\* the engine's dictionaries as one value
Engine == [contexts |-> contexts, update_history |-> update_history,
           symbolic_registry |-> symbolic_registry]

\* uuid4(): an id different from every id in use
FreshId(used) == Cardinality(used) + 1

\* WorkflowInstance(...) as start_workflow builds it
WorkflowInstance(project, t) ==
    [project_id |-> project.id,
     workflow_type |-> "spec_driven",
     status |-> "active",
     current_phase |-> DISCOVERY,
     completed_phases |-> <<>>,
     phase_history |-> <<>>,
     state_id |-> NoneId,
     state_history |-> <<>>,
     context_id |-> NoneId,
     assigned_agents |-> <<>>,
     agent_roles |-> EmptyMap,
     started_at |-> AwareNow(t)]

\* WorkflowState(...) for a phase
WorkflowState(sid, wid, phase, t) ==
    [id |-> sid,
     workflow_id |-> wid,
     current_phase |-> phase,
     phase_started_at |-> AwareNow(t),
     phase_completed_at |-> NoTime,
     updated_at |-> AwareNow(t)]

\* WorkflowTransition(...) as transition_to_phase builds it, completed
\* a variant that records the target as the phase left
WorkflowTransition_from_target(wid, from, to, reason, t) ==
    [workflow_id |-> wid,
     from_phase |-> to,
     to_phase |-> to,
     triggered_by |-> "system",
     trigger_reason |-> reason,
     dependencies_satisfied |-> TRUE,
     validation_passed |-> TRUE,
     transition_started_at |-> AwareNow(t),
     transition_completed_at |-> AwareNow(t)]

WorkflowTransition(wid, from, to, reason, t) ==
    [workflow_id |-> wid,
     from_phase |-> from,
     to_phase |-> to,
     triggered_by |-> "system",
     trigger_reason |-> reason,
     dependencies_satisfied |-> TRUE,
     validation_passed |-> TRUE,
     transition_started_at |-> AwareNow(t),
     transition_completed_at |-> AwareNow(t)]

_validate_phase_transition_strict(workflow, target_phase) ==
    /\ target_phase \in Range(phase_order)
    /\ workflow.current_phase \in Range(phase_order)
    /\ index(phase_order, target_phase) > index(phase_order, workflow.current_phase)

_validate_phase_transition_unordered(workflow, target_phase) ==
    /\ target_phase \in Range(phase_order)
    /\ workflow.current_phase \in Range(phase_order)

_validate_phase_transition(workflow, target_phase) ==
    IF target_phase \notin WorkflowPhaseDictValues
    THEN FALSE
    ELSE IF workflow.current_phase \notin Range(phase_order)
            \/ target_phase \notin Range(phase_order)
         THEN FALSE   \* phase_order.index raises ValueError
         ELSE index(phase_order, target_phase) >= index(phase_order, workflow.current_phase)

\* _calculate_progress: (completed_count / 8) * 100 is completed_count * 12.5;
\* the result is kept exact in tenths of a percent (125 for 12.5, 1000 for 100.0)
_calculate_progress(workflow) == (Len(workflow.completed_phases) * 1000) \div 8


\* lines 169-183 of transition_to_phase: the WorkflowInstance after the move
\* (this variant forgets to record the completed phase)
UpdateWorkflow_no_completed(workflow, transition, new_sid) ==
    [workflow EXCEPT
        !.current_phase = transition.to_phase,
        !.phase_history = Append(@, [from_phase |-> transition.from_phase,
                                     to_phase |-> transition.to_phase,
                                     \* transition_started_at.isoformat()
                                     timestamp |-> transition.transition_started_at,
                                     reason |-> transition.trigger_reason]),
        !.state_id = new_sid,
        !.state_history = Append(@, new_sid)]

\* lines 169-183 of transition_to_phase: the WorkflowInstance after the move
\* (this variant puts the completed phase at the front of the list)
UpdateWorkflow_prepend(workflow, transition, new_sid) ==
    [workflow EXCEPT
        !.current_phase = transition.to_phase,
        !.completed_phases = <<workflow.current_phase>> \o @,
        !.phase_history = Append(@, [from_phase |-> transition.from_phase,
                                     to_phase |-> transition.to_phase,
                                     \* transition_started_at.isoformat()
                                     timestamp |-> transition.transition_started_at,
                                     reason |-> transition.trigger_reason]),
        !.state_id = new_sid,
        !.state_history = Append(@, new_sid)]

\* lines 169-183 of transition_to_phase: the WorkflowInstance after the move
UpdateWorkflow(workflow, transition, new_sid) ==
    [workflow EXCEPT
        !.current_phase = transition.to_phase,
        !.completed_phases = Append(@, workflow.current_phase),
        !.phase_history = Append(@, [from_phase |-> transition.from_phase,
                                     to_phase |-> transition.to_phase,
                                     \* transition_started_at.isoformat()
                                     timestamp |-> transition.transition_started_at,
                                     reason |-> transition.trigger_reason]),
        !.state_id = new_sid,
        !.state_history = Append(@, new_sid)]

\* lines 137-190 of transition_to_phase: everything after the validation
CommitTransition(orch, wid, target_phase, trigger_reason, t) ==
    LET workflow == orch.workflows[wid]
        transition == WorkflowTransition(wid, workflow.current_phase, target_phase,
                                         trigger_reason, t)
        cur_sid == orch.workflow_states[wid]
        \* current_state.current_phase = target_phase; phase_completed_at = now
        stamped == [orch.state_objs[cur_sid] EXCEPT
                        !.current_phase = target_phase,
                        !.phase_completed_at = AwareNow(t)]
        new_sid == FreshId(DOMAIN orch.state_objs)
        new_state == WorkflowState(new_sid, wid, target_phase, t)
    IN  [workflows |-> [orch.workflows EXCEPT
                            ![wid] = UpdateWorkflow(workflow, transition, new_sid)],
         workflow_states |-> [orch.workflow_states EXCEPT ![wid] = new_sid],
         state_objs |-> (new_sid :> new_state)
                        @@ [orch.state_objs EXCEPT ![cur_sid] = stamped],
         transition_history |-> [orch.transition_history EXCEPT
                                    ![wid] = Append(@, transition)]]

\* a variant that mutates first and validates afterwards
transition_to_phase_commit_first(orch, wid, target_phase, trigger_reason, t) ==
    IF wid \notin DOMAIN orch.workflows
    THEN [outcome |-> "WorkflowOrchestrationError", orch |-> orch]
    ELSE IF ~ _validate_phase_transition(orch.workflows[wid], target_phase)
         THEN [outcome |-> "WorkflowOrchestrationError",
               orch |-> CommitTransition(orch, wid, target_phase, trigger_reason, t)]
         ELSE [outcome |-> "returned",
               orch |-> CommitTransition(orch, wid, target_phase, trigger_reason, t)]

\* a variant that commits without validating the target
transition_to_phase_unvalidated(orch, wid, target_phase, trigger_reason, t) ==
    IF wid \notin DOMAIN orch.workflows
    THEN [outcome |-> "WorkflowOrchestrationError", orch |-> orch]
    ELSE [outcome |-> "returned",
          orch |-> CommitTransition(orch, wid, target_phase, trigger_reason, t)]

\* transition_to_phase: how the call ends and the orchestrator it leaves
transition_to_phase(orch, wid, target_phase, trigger_reason, t) ==
    IF wid \notin DOMAIN orch.workflows
    THEN [outcome |-> "WorkflowOrchestrationError", orch |-> orch]
    ELSE IF ~ _validate_phase_transition(orch.workflows[wid], target_phase)
         THEN [outcome |-> "WorkflowOrchestrationError", orch |-> orch]
         ELSE [outcome |-> "returned",
               orch |-> CommitTransition(orch, wid, target_phase, trigger_reason, t)]

\* ------------------------------------------------------------- context model
\* the declared fields of SymbolicReference without a default (context.py
\* 45-58 and the name/status fields inherited from MetadataModel/StatusModel)
SymbolicReferenceRequired ==
    {"name", "status", "reference_id", "reference_type", "symbolic_name", "symbolic_type"}

\* the keyword arguments _initialize_symbolic_data passes to SymbolicReference
RequirementsRefKwargs ==
    {"reference_id", "reference_type", "symbolic_name", "symbolic_type", "target_id"}

\* BaseModel.__init__: the required fields the keyword arguments leave out;
\* non-empty means ValidationError
MissingFields(required, kwargs) == required \ kwargs

\* SpecDrivenContext(...) as create_context builds it
SpecDrivenContext(cid, project, t) ==
    [id |-> cid,
     project_id |-> project.id,
     context_type |-> "spec_driven",
     status |-> "active",
     requirements |-> EmptyMap,
     specifications |-> EmptyMap,
     architecture |-> EmptyMap,
     implementation |-> EmptyMap,
     symbolic_data |-> EmptyMap,
     symbolic_references |-> EmptyMap,
     version |-> 1,
     version_history |-> <<>>,
     update_history |-> <<>>,
     consistency_status |-> "pending",
     consistency_errors |-> {},
     last_consistency_check |-> NoTime,
     read_access |-> <<project.id>>,
     write_access |-> <<project.id>>,
     created_at |-> AwareNow(t),
     updated_at |-> AwareNow(t)]

\* SpecSymbolicEngine._determine_symbolic_type for a dict with these keys
_determine_symbolic_type(keys) ==
    IF "openapi" \in keys \/ "endpoints" \in keys THEN "api_specification"
    ELSE IF "requirements" \in keys \/ "features" \in keys THEN "requirements"
    ELSE IF "architecture" \in keys \/ "components" \in keys THEN "architecture"
    ELSE IF "implementation" \in keys \/ "code" \in keys THEN "implementation"
    ELSE "generic_data"

\* the keys of the dict _initialize_symbolic_data hands to the symbolic engine
ProjectDataKeys == {"name", "description", "stakeholders", "technical_constraints"}

\* create_symbolic_representation of the project dict: the SymbolicData made
\* (its symbolic_name is data["name"], _generate_symbolic_name)
create_symbolic_representation(sym_id, project) ==
    [symbolic_id |-> sym_id,
     symbolic_type |-> _determine_symbolic_type(ProjectDataKeys),
     symbolic_name |-> project.name,
     parent_symbolic_id |-> NoneStr,
     child_symbolic_ids |-> {},
     related_symbolic_ids |-> {}]

\* the SymbolicReference of _initialize_symbolic_data
RequirementsRef(project) ==
    [reference_id |-> "requirements_ref",
     reference_type |-> "project_requirements",
     symbolic_name |-> "Project Requirements",
     symbolic_type |-> "requirements",
     target_id |-> project.id,
     resolved |-> FALSE,
     resolved_at |-> NoTime]

\* _initialize_symbolic_data: registers the SymbolicData, stores it under
\* "project_requirements", then constructs the SymbolicReference
_initialize_symbolic_data(context, project, registry) ==
    LET requirements_symbolic ==
            create_symbolic_representation(FreshId(DOMAIN registry), project)
        registry2 == Append(registry, requirements_symbolic)
        context2 == [context EXCEPT
                        !.symbolic_data = DictUpdate(@, "project_requirements" :> requirements_symbolic)]
    IN  IF MissingFields(SymbolicReferenceRequired, RequirementsRefKwargs) # {}
        THEN [outcome |-> "ValidationError", context |-> context2, registry |-> registry2]
        ELSE [outcome |-> "returned",
              context |-> [context2 EXCEPT
                              !.symbolic_references =
                                  DictUpdate(@, "requirements_ref" :> RequirementsRef(project))],
              registry |-> registry2]

\* create_context: how the call ends, the id it made and the engine it leaves
create_context(eng, project, t) ==
    LET context_id == FreshId(DOMAIN eng.contexts)
        init == _initialize_symbolic_data(SpecDrivenContext(context_id, project, t),
                                          project, eng.symbolic_registry)
    IN  IF init.outcome # "returned"
        THEN [outcome |-> init.outcome,
              context_id |-> NoneId,
              eng |-> [eng EXCEPT !.symbolic_registry = init.registry]]
        ELSE [outcome |-> "returned",
              context_id |-> context_id,
              eng |-> [contexts |-> (context_id :> init.context) @@ eng.contexts,
                       update_history |-> (context_id :> <<>>) @@ eng.update_history,
                       symbolic_registry |-> init.registry]]

\* ------------------------------------------------------ consistency validator
\* _check_symbolic_data_consistency
_check_symbolic_data_consistency(context) ==
    LET sd == context.symbolic_data IN
    {[kind |-> "data_missing_name", id |-> k, ref |-> NoneStr] :
        k \in {x \in DOMAIN sd : sd[x].symbolic_name = NoneStr}}
    \cup {[kind |-> "data_missing_type", id |-> k, ref |-> NoneStr] :
        k \in {x \in DOMAIN sd : sd[x].symbolic_type = NoneStr}}
    \cup {[kind |-> "missing_parent", id |-> k, ref |-> sd[k].parent_symbolic_id] :
        k \in {x \in DOMAIN sd : sd[x].parent_symbolic_id # NoneStr
                                 /\ sd[x].parent_symbolic_id \notin DOMAIN sd}}
    \cup UNION {{[kind |-> "missing_child", id |-> k, ref |-> c] :
                    c \in {y \in sd[k].child_symbolic_ids : y \notin DOMAIN sd}} :
                k \in DOMAIN sd}

\* _check_symbolic_references_consistency
_check_symbolic_references_consistency(context) ==
    LET refs == context.symbolic_references IN
    {[kind |-> "reference_missing_name", id |-> k, ref |-> NoneStr] :
        k \in {x \in DOMAIN refs : refs[x].symbolic_name = NoneStr}}
    \cup {[kind |-> "reference_missing_type", id |-> k, ref |-> NoneStr] :
        k \in {x \in DOMAIN refs : refs[x].reference_type = NoneStr}}

\* _check_cross_reference_consistency
_check_cross_reference_consistency(context) ==
    LET sd == context.symbolic_data
        refs == context.symbolic_references IN
    {[kind |-> "reference_without_data", id |-> k, ref |-> refs[k].symbolic_name] :
        k \in {x \in DOMAIN refs : refs[x].symbolic_name \notin DOMAIN sd}}
    \cup UNION {{[kind |-> "missing_related", id |-> k, ref |-> r] :
                    r \in {y \in sd[k].related_symbolic_ids : y \notin DOMAIN sd}} :
                k \in DOMAIN sd}

\* created_at > updated_at raises TypeError when one datetime is offset-aware
\* and the other offset-naive
DatetimeComparable(a, b) == a.aware = b.aware

\* _check_data_integrity (when the two timestamps can be compared)
_check_data_integrity(context) ==
    (IF context.project_id = NoneId
        THEN {[kind |-> "missing_project_id", id |-> NoneStr, ref |-> NoneStr]} ELSE {})
    \cup (IF context.context_type \notin {"spec_driven", "legacy", "migrated"}
        THEN {[kind |-> "invalid_context_type", id |-> NoneStr, ref |-> NoneStr]} ELSE {})
    \cup (IF context.version < 1
        THEN {[kind |-> "invalid_version", id |-> NoneStr, ref |-> NoneStr]} ELSE {})
    \cup (IF context.created_at.t > context.updated_at.t
        THEN {[kind |-> "created_after_updated", id |-> NoneStr, ref |-> NoneStr]} ELSE {})

\* _check_version_consistency
_check_version_consistency(context) ==
    (IF Len(context.version_history) # context.version - 1
        THEN {[kind |-> "version_history_length", id |-> NoneStr, ref |-> NoneStr]} ELSE {})
    \cup (IF Len(context.update_history) # Len(context.version_history)
        THEN {[kind |-> "update_history_length", id |-> NoneStr, ref |-> NoneStr]} ELSE {})

\* find_inconsistencies: the violations found, or the TypeError that escapes
\* from _check_data_integrity
find_inconsistencies(context) ==
    IF ~ DatetimeComparable(context.created_at, context.updated_at)
    THEN [outcome |-> "TypeError", list |-> {}]
    ELSE [outcome |-> "returned",
          list |-> _check_symbolic_data_consistency(context)
                   \cup _check_symbolic_references_consistency(context)
                   \cup _check_cross_reference_consistency(context)
                   \cup _check_data_integrity(context)
                   \cup _check_version_consistency(context)]

\* -------------------------------------------------------------- update_context
\* a SymbolicData whose child_symbolic_ids names an id that is no key
DanglingChildData ==
    [symbolic_id |-> "s1", symbolic_type |-> "requirements", symbolic_name |-> "S1",
     parent_symbolic_id |-> NoneStr, child_symbolic_ids |-> {"ghost"},
     related_symbolic_ids |-> {}]

\* the ContextUpdate objects callers pass, by id
ContextUpdates ==
    (1 :> [id |-> 1, update_type |-> "requirements", update_data |-> ("new_req" :> "x")])
    @@ (2 :> [id |-> 2, update_type |-> "requirements", update_data |-> ("new_req" :> "y")])
    @@ (3 :> [id |-> 3, update_type |-> "symbolic_data",
              update_data |-> ("s1" :> DanglingChildData)])

\* the batches callers pass: lists of update ids, at most MaxBatch long
Batches == UNION {[1..n -> DOMAIN ContextUpdates] : n \in 0..MaxBatch}


\* one round of the loop of _apply_updates
ApplyUpdate(context, update, t) ==
    LET routed ==
            IF update.update_type = "requirements"
            THEN [context EXCEPT !.requirements = DictUpdate(@, update.update_data)]
            ELSE IF update.update_type = "specifications"
            THEN [context EXCEPT !.specifications = DictUpdate(@, update.update_data)]
            ELSE IF update.update_type = "architecture"
            THEN [context EXCEPT !.architecture = DictUpdate(@, update.update_data)]
            ELSE IF update.update_type = "implementation"
            THEN [context EXCEPT !.implementation = DictUpdate(@, update.update_data)]
            ELSE IF update.update_type = "symbolic_data"
            THEN [context EXCEPT !.symbolic_data = DictUpdate(@, update.update_data)]
            ELSE IF update.update_type = "symbolic_references"
            THEN [context EXCEPT !.symbolic_references = DictUpdate(@, update.update_data)]
            ELSE context
    IN  [routed EXCEPT !.updated_at = NaiveNow(t),
                       !.version = @ + 1,
                       !.update_history = Append(@, update.id)]

RECURSIVE ApplyUpdates(_, _, _)
\* the loop of _apply_updates over a list of update ids, on the copy
ApplyUpdates(context, batch, t) ==
    IF batch = <<>> THEN context
    ELSE ApplyUpdates(ApplyUpdate(context, ContextUpdates[Head(batch)], t), Tail(batch), t)

\* _apply_updates: context.model_copy(deep=True) is self.copy(deep=True)
\* (models/base.py), which the bundled pydantic stub does not define
_apply_updates(context, batch, t, impl) ==
    IF impl = "stub"
    THEN [outcome |-> "AttributeError", context |-> context]
    ELSE [outcome |-> "returned", context |-> ApplyUpdates(context, batch, t)]

\* a variant of the not-found path that returns instead of raising
ContextNotFound_silent(eng, proc) ==
    [outcome |-> "returned", eng |-> eng, processed |-> proc]

\* update_context lines 97-98: raise ValueError, nothing touched
ContextNotFound(eng, proc) ==
    [outcome |-> "ValueError", eng |-> eng, processed |-> proc]

\* update_context: how the call ends, the engine and the processed flags it leaves
update_context(eng, proc, context_id, batch, t, impl) ==
    IF context_id \notin DOMAIN eng.contexts
    THEN ContextNotFound(eng, proc)
    ELSE LET applied == _apply_updates(eng.contexts[context_id], batch, t, impl)
             found == find_inconsistencies(applied.context)
         IN  IF applied.outcome # "returned"
             THEN [outcome |-> applied.outcome, eng |-> eng, processed |-> proc]
             ELSE IF found.outcome # "returned"
             THEN [outcome |-> found.outcome, eng |-> eng, processed |-> proc]
             ELSE IF found.list # {}
             THEN [outcome |-> "ContextInconsistencyError", eng |-> eng, processed |-> proc]
             ELSE [outcome |-> "returned",
                   eng |-> [eng EXCEPT
                              !.contexts[context_id] = applied.context,
                              !.update_history[context_id] = @ \o batch],
                   processed |-> proc \cup Range(batch)]

\* ---------------------------------------------------------------- start_workflow
\* start_workflow: how the call ends and what it leaves in the orchestrator,
\* its context engine and the caller's Project
start_workflow(orch, eng, project, t) ==
    LET workflow_id == FreshId(DOMAIN orch.workflows)
        sid == FreshId(DOMAIN orch.state_objs)
        workflow == [WorkflowInstance(project, t) EXCEPT
                        !.state_id = sid, !.state_history = <<sid>>]
        stored(wf) ==
            [workflows |-> (workflow_id :> wf) @@ orch.workflows,
             workflow_states |-> (workflow_id :> sid) @@ orch.workflow_states,
             state_objs |-> (sid :> WorkflowState(sid, workflow_id, DISCOVERY, t))
                            @@ orch.state_objs,
             transition_history |-> (workflow_id :> <<>>) @@ orch.transition_history]
        created == create_context(eng, project, t)
    IN  IF project.context_id # NoneId
        THEN [outcome |-> "returned", workflow_id |-> workflow_id,
              orch |-> stored(workflow), eng |-> eng, project |-> project]
        ELSE IF created.outcome # "returned"
        THEN [outcome |-> created.outcome, workflow_id |-> workflow_id,
              orch |-> stored(workflow), eng |-> created.eng, project |-> project]
        ELSE [outcome |-> "returned", workflow_id |-> workflow_id,
              orch |-> stored([workflow EXCEPT !.context_id = created.context_id]),
              eng |-> created.eng,
              project |-> [project EXCEPT !.context_id = created.context_id]]

\* ------------------------------------------------------------------ the machine
\* no resolved data (nothing returned)
NoData == [resolved |-> FALSE, reference_id |-> NoneStr, target_path |-> NoneStr,
           data |-> NoneStr]

NoCall ==
    [op |-> "none", outcome |-> "none", workflow_id |-> NoneId, target_phase |-> NoneStr,
     trigger_reason |-> NoneStr, project |-> NoneId, context_id |-> NoneId, batch |-> <<>>,
     returned_context |-> NoContext, errors |-> {}, is_consistent |-> FALSE,
     updates |-> <<>>, reference |-> 0, data |-> NoData, state_id |-> NoneId,
     artifact_id |-> NoneId, related_artifact_id |-> NoneId,
     relationship_type |-> NoneStr, content |-> NoneStr, value |-> FALSE,
     repeated |-> FALSE, overlapped |-> {}, raced |-> FALSE,
     progress_percentage |-> 0]

\* the tasks that run calls concurrently
Tasks == 1..MaxTasks

\* a task that is running no call
IdleTask ==
    [op |-> "none", pc |-> "idle", project |-> NoneId, workflow_id |-> NoneId,
     target_phase |-> NoneStr, trigger_reason |-> NoneStr, context_id |-> NoneId,
     batch |-> <<>>]

\* both components after __init__ and the caller's Projects; no call made yet
Constructed ==
    /\ workflows = EmptyMap
    /\ workflow_states = EmptyMap
    /\ state_objs = EmptyMap
    /\ transition_history = EmptyMap
    /\ contexts = EmptyMap
    /\ update_history = EmptyMap
    /\ symbolic_registry = <<>>
    /\ processed = {}
    /\ projects = (1 :> [id |-> 1, name |-> "Acme", context_id |-> NoneId])
                  @@ (2 :> [id |-> 2, name |-> "Beta", context_id |-> PresetContextId])
    /\ pydantic \in {"stub", "package"}
    /\ calls = 0
    /\ last = NoCall
    /\ context_lock = NoTask
    /\ workflow_lock = NoTask
    /\ tasks = [task \in Tasks |-> IdleTask]
    /\ resolution_cache = EmptyMap
    /\ resolutions = 0
    /\ states = EmptyMap
    /\ state_history = EmptyMap
    /\ manager_objs = EmptyMap
    /\ artifacts = EmptyMap
    /\ metadata = EmptyMap
    /\ files = EmptyMap

Init ==
    /\ Constructed
    /\ caller_context = NoContext
    /\ references = <<>>
    /\ resolved_data = <<>>

StartWorkflow(p) ==
    /\ calls < MaxCalls
    /\ LET r == start_workflow(Orch, Engine, projects[p], calls + 1) IN
        /\ workflows' = r.orch.workflows
        /\ workflow_states' = r.orch.workflow_states
        /\ state_objs' = r.orch.state_objs
        /\ transition_history' = r.orch.transition_history
        /\ contexts' = r.eng.contexts
        /\ update_history' = r.eng.update_history
        /\ symbolic_registry' = r.eng.symbolic_registry
        /\ projects' = [projects EXCEPT ![p] = r.project]
        /\ last' = [NoCall EXCEPT !.op = "start_workflow", !.outcome = r.outcome,
                                  !.project = p, !.workflow_id = r.workflow_id]
    /\ calls' = calls + 1
    /\ UNCHANGED <<processed, pydantic, component_vars, task_vars, caller_context>>

TransitionToPhase(wid, target_phase, trigger_reason) ==
    /\ calls < MaxCalls
    /\ LET r == transition_to_phase(Orch, wid, target_phase, trigger_reason, calls + 1) IN
        /\ workflows' = r.orch.workflows
        /\ workflow_states' = r.orch.workflow_states
        /\ state_objs' = r.orch.state_objs
        /\ transition_history' = r.orch.transition_history
        /\ last' = [NoCall EXCEPT !.op = "transition_to_phase", !.outcome = r.outcome,
                                  !.workflow_id = wid, !.target_phase = target_phase,
                                  !.trigger_reason = trigger_reason]
    /\ calls' = calls + 1
    /\ UNCHANGED <<engine_vars, projects, pydantic, component_vars, task_vars, caller_context>>

CreateContext(p) ==
    /\ calls < MaxCalls
    /\ LET r == create_context(Engine, projects[p], calls + 1) IN
        /\ contexts' = r.eng.contexts
        /\ update_history' = r.eng.update_history
        /\ symbolic_registry' = r.eng.symbolic_registry
        /\ last' = [NoCall EXCEPT !.op = "create_context", !.outcome = r.outcome,
                                  !.project = p, !.context_id = r.context_id]
    /\ calls' = calls + 1
    /\ UNCHANGED <<orch_vars, processed, projects, pydantic, component_vars, task_vars, caller_context>>

UpdateContext(context_id, batch) ==
    /\ calls < MaxCalls
    /\ LET r == update_context(Engine, processed, context_id, batch, calls + 1, pydantic) IN
        /\ contexts' = r.eng.contexts
        /\ update_history' = r.eng.update_history
        /\ symbolic_registry' = r.eng.symbolic_registry
        /\ processed' = r.processed
        /\ last' = [NoCall EXCEPT !.op = "update_context", !.outcome = r.outcome,
                                  !.context_id = context_id, !.batch = batch]
    /\ calls' = calls + 1
    /\ UNCHANGED <<orch_vars, projects, pydantic, component_vars, task_vars, caller_context>>

\* the context ids callers pass: every stored one and one that is not stored
ContextIds == (DOMAIN contexts) \cup {PresetContextId}

\* the workflow ids callers pass: every stored one and one that is not stored
WorkflowIdArgs == (DOMAIN workflows) \cup {FreshId(DOMAIN workflows)}

Next ==
    \/ \E p \in Projects : StartWorkflow(p)
    \/ \E wid \in WorkflowIdArgs, target_phase \in Targets, trigger_reason \in Reasons :
          TransitionToPhase(wid, target_phase, trigger_reason)
    \/ \E p \in Projects : CreateContext(p)
    \/ \E context_id \in ContextIds, batch \in Batches : UpdateContext(context_id, batch)

Spec == Init /\ [][Next]_vars

\* ------------------------------------------------- lookups and unlocked calls
\* a variant of the lookup that indexes the dictionary instead of using .get
retrieve_context_indexing(eng, context_id) ==
    IF context_id \in DOMAIN eng.contexts
    THEN [outcome |-> "returned", context |-> eng.contexts[context_id]]
    ELSE [outcome |-> "KeyError", context |-> NoContext]

\* retrieve_context: self.contexts.get(context_id)
retrieve_context(eng, context_id) ==
    IF context_id \in DOMAIN eng.contexts
    THEN [outcome |-> "returned", context |-> eng.contexts[context_id]]
    ELSE [outcome |-> "returned", context |-> NoContext]

\* get_context: return await self.retrieve_context(context_id)
get_context(eng, context_id) == retrieve_context(eng, context_id)

\* assign_agent_to_workflow: how the call ends and the orchestrator it leaves
assign_agent_to_workflow(orch, wid, agent_id, role) ==
    IF wid \notin DOMAIN orch.workflows
    THEN [outcome |-> "WorkflowOrchestrationError", orch |-> orch]
    ELSE [outcome |-> "returned",
          orch |-> [orch EXCEPT
                      !.workflows[wid].assigned_agents =
                          IF agent_id \in Range(@) THEN @ ELSE Append(@, agent_id),
                      !.workflows[wid].agent_roles = DictUpdate(@, agent_id :> role)]]

\* _resolve_inconsistencies: marks the context object it is given
_resolve_inconsistencies(context, inconsistencies, t) ==
    [context EXCEPT !.consistency_status = "resolving",
                    !.consistency_errors = inconsistencies,
                    !.last_consistency_check = NaiveNow(t)]

\* maintain_symbolic_consistency on engine.contexts.get(context_id): how the
\* call ends and the engine it leaves (None has no symbolic_data attribute)
maintain_symbolic_consistency(eng, context_id, t) ==
    IF context_id \notin DOMAIN eng.contexts
    THEN [outcome |-> "AttributeError", eng |-> eng]
    ELSE LET found == find_inconsistencies(eng.contexts[context_id]) IN
         IF found.outcome # "returned"
         THEN [outcome |-> found.outcome, eng |-> eng]
         ELSE IF found.list = {}
         THEN [outcome |-> "returned", eng |-> eng]
         ELSE [outcome |-> "returned",
               eng |-> [eng EXCEPT !.contexts[context_id] =
                           _resolve_inconsistencies(@, found.list, t)]]

\* ------------------------------------------------------- the calls as tasks
\* the calls in flight: made, not yet ended
InFlight == Cardinality({task \in Tasks : tasks[task].pc # "idle"})

\* another call may be made
Budget == calls + InFlight < MaxTaskCalls

\* the agent ids and roles callers pass
Agents == {1, 2}
Roles == {"developer"}

\* the target phases the tasks ask for: the first phase, the next one and a
\* string that is no phase
TaskTargets == {DISCOVERY, PLANNING, "bogus"}

\* the batches the tasks pass: none, one update, two updates
TaskBatches == {b \in Batches : b \in {<<>>, <<1>>, <<2, 1>>}}

\* the calls of the coroutines that enter a lock
TaskCalls ==
    {[IdleTask EXCEPT !.op = "start_workflow", !.project = p] : p \in Projects}
    \cup {[IdleTask EXCEPT !.op = "transition_to_phase", !.workflow_id = wid,
                           !.target_phase = target_phase,
                           !.trigger_reason = "User request"] :
            wid \in WorkflowIdArgs, target_phase \in TaskTargets}
    \cup {[IdleTask EXCEPT !.op = "update_context", !.context_id = context_id,
                           !.batch = batch] :
            context_id \in ContextIds, batch \in TaskBatches}

\* a lock that never makes a task wait
LockFree_always(lock) == TRUE

\* asyncio.Lock: acquire() goes on without waiting only when no task holds it
LockFree(lock) == lock = NoTask

\* a task is created for the call; its coroutine stands at its `async with`
Call(task, call) ==
    /\ Budget
    /\ tasks[task].pc = "idle"
    /\ tasks' = [tasks EXCEPT ![task] = [call EXCEPT !.pc = "waiting"]]
    /\ UNCHANGED <<orch_vars, engine_vars, projects, pydantic, component_vars, calls, last,
                   context_lock, workflow_lock, caller_context>>

\* `async with self.context_lock` / `async with self.workflow_lock`
Acquire(task) ==
    /\ tasks[task].pc = "waiting"
    /\ IF tasks[task].op = "update_context"
       THEN /\ LockFree(context_lock)
            /\ context_lock' = task
            /\ UNCHANGED workflow_lock
       ELSE /\ LockFree(workflow_lock)
            /\ workflow_lock' = task
            /\ UNCHANGED context_lock
    /\ tasks' = [tasks EXCEPT ![task].pc = "locked"]
    /\ UNCHANGED <<orch_vars, engine_vars, projects, pydantic, component_vars, calls, last, caller_context>>

\* the body of start_workflow, then the lock is released
StartWorkflowLocked(task) ==
    /\ tasks[task].op = "start_workflow"
    /\ tasks[task].pc = "locked"
    /\ LET p == tasks[task].project
           r == start_workflow(Orch, Engine, projects[p], calls + 1) IN
        /\ workflows' = r.orch.workflows
        /\ workflow_states' = r.orch.workflow_states
        /\ state_objs' = r.orch.state_objs
        /\ transition_history' = r.orch.transition_history
        /\ contexts' = r.eng.contexts
        /\ update_history' = r.eng.update_history
        /\ symbolic_registry' = r.eng.symbolic_registry
        /\ projects' = [projects EXCEPT ![p] = r.project]
        /\ last' = [NoCall EXCEPT !.op = "start_workflow", !.outcome = r.outcome,
                                  !.project = p, !.workflow_id = r.workflow_id]
    /\ workflow_lock' = NoTask
    /\ tasks' = [tasks EXCEPT ![task] = IdleTask]
    /\ calls' = calls + 1
    /\ UNCHANGED <<processed, pydantic, component_vars, context_lock, caller_context>>

\* the targets of the other transition_to_phase calls for the same workflow
\* that wait at the lock while this task holds it
WaitingTargets(task) ==
    {tasks[other].target_phase :
        other \in {x \in Tasks \ {task} :
                      /\ tasks[x].op = "transition_to_phase"
                      /\ tasks[x].pc = "waiting"
                      /\ tasks[x].workflow_id = tasks[task].workflow_id}}

\* the call of this task waited at the lock while the call that completed
\* last, a transition_to_phase for the same workflow, ran its body
RacedWithLast(task) ==
    /\ last.op = "transition_to_phase"
    /\ last.workflow_id = tasks[task].workflow_id
    /\ tasks[task].target_phase \in last.overlapped

\* the body of transition_to_phase, then the lock is released
TransitionToPhaseLocked(task) ==
    /\ tasks[task].op = "transition_to_phase"
    /\ tasks[task].pc = "locked"
    /\ LET c == tasks[task]
           r == transition_to_phase(Orch, c.workflow_id, c.target_phase,
                                    c.trigger_reason, calls + 1) IN
        /\ workflows' = r.orch.workflows
        /\ workflow_states' = r.orch.workflow_states
        /\ state_objs' = r.orch.state_objs
        /\ transition_history' = r.orch.transition_history
        /\ last' = [NoCall EXCEPT !.op = "transition_to_phase", !.outcome = r.outcome,
                                  !.workflow_id = c.workflow_id,
                                  !.target_phase = c.target_phase,
                                  !.trigger_reason = c.trigger_reason,
                                  !.overlapped = WaitingTargets(task),
                                  !.raced = RacedWithLast(task)]
    /\ workflow_lock' = NoTask
    /\ tasks' = [tasks EXCEPT ![task] = IdleTask]
    /\ calls' = calls + 1
    /\ UNCHANGED <<engine_vars, projects, pydantic, component_vars, context_lock, caller_context>>

\* update_context line 96: context = await self.get_context(context_id)
UpdateContextFetch(task) ==
    /\ tasks[task].op = "update_context"
    /\ tasks[task].pc = "locked"
    /\ tasks' = [tasks EXCEPT ![task].pc = "fetched"]
    /\ UNCHANGED <<orch_vars, engine_vars, projects, pydantic, component_vars, calls, last,
                   context_lock, workflow_lock, caller_context>>

\* a variant that leaves the lock held when the body raises
UpdateContextFinish_holding(task) ==
    /\ tasks[task].op = "update_context"
    /\ tasks[task].pc = "fetched"
    /\ LET c == tasks[task]
           r == update_context(Engine, processed, c.context_id, c.batch,
                               calls + 1, pydantic) IN
        /\ contexts' = r.eng.contexts
        /\ update_history' = r.eng.update_history
        /\ symbolic_registry' = r.eng.symbolic_registry
        /\ processed' = r.processed
        /\ last' = [NoCall EXCEPT !.op = "update_context", !.outcome = r.outcome,
                                  !.context_id = c.context_id, !.batch = c.batch]
        /\ context_lock' = IF r.outcome = "returned" THEN NoTask ELSE task
    /\ tasks' = [tasks EXCEPT ![task] = IdleTask]
    /\ calls' = calls + 1
    /\ UNCHANGED <<orch_vars, projects, pydantic, component_vars, workflow_lock, caller_context>>

\* update_context lines 97-121 on the object fetched, then the lock is released
UpdateContextFinish(task) ==
    /\ tasks[task].op = "update_context"
    /\ tasks[task].pc = "fetched"
    /\ LET c == tasks[task]
           r == update_context(Engine, processed, c.context_id, c.batch,
                               calls + 1, pydantic) IN
        /\ contexts' = r.eng.contexts
        /\ update_history' = r.eng.update_history
        /\ symbolic_registry' = r.eng.symbolic_registry
        /\ processed' = r.processed
        /\ last' = [NoCall EXCEPT !.op = "update_context", !.outcome = r.outcome,
                                  !.context_id = c.context_id, !.batch = c.batch]
    /\ context_lock' = NoTask
    /\ tasks' = [tasks EXCEPT ![task] = IdleTask]
    /\ calls' = calls + 1
    /\ UNCHANGED <<orch_vars, projects, pydantic, component_vars, workflow_lock, caller_context>>

\* create_context called on the engine: it enters no lock
CreateContextUnlocked(p) ==
    /\ Budget
    /\ CreateContext(p)

\* retrieve_context / get_context: they enter no lock
RetrieveContext(op, context_id) ==
    /\ Budget
    /\ LET r == IF op = "get_context" THEN get_context(Engine, context_id)
                ELSE retrieve_context(Engine, context_id) IN
        last' = [NoCall EXCEPT !.op = op, !.outcome = r.outcome,
                               !.context_id = context_id,
                               !.returned_context = r.context]
    /\ calls' = calls + 1
    /\ UNCHANGED <<orch_vars, engine_vars, projects, pydantic, component_vars, task_vars, caller_context>>

\* assign_agent_to_workflow: it enters no lock
AssignAgentToWorkflow(wid, agent_id, role) ==
    /\ Budget
    /\ LET r == assign_agent_to_workflow(Orch, wid, agent_id, role) IN
        /\ workflows' = r.orch.workflows
        /\ workflow_states' = r.orch.workflow_states
        /\ state_objs' = r.orch.state_objs
        /\ transition_history' = r.orch.transition_history
        /\ last' = [NoCall EXCEPT !.op = "assign_agent_to_workflow",
                                  !.outcome = r.outcome, !.workflow_id = wid]
    /\ calls' = calls + 1
    /\ UNCHANGED <<engine_vars, projects, pydantic, component_vars, task_vars, caller_context>>

\* maintain_symbolic_consistency(await engine.get_context(id)): it enters no lock
MaintainSymbolicConsistency(context_id) ==
    /\ Budget
    /\ LET r == maintain_symbolic_consistency(Engine, context_id, calls + 1) IN
        /\ contexts' = r.eng.contexts
        /\ update_history' = r.eng.update_history
        /\ symbolic_registry' = r.eng.symbolic_registry
        /\ last' = [NoCall EXCEPT !.op = "maintain_symbolic_consistency",
                                  !.outcome = r.outcome, !.context_id = context_id]
    /\ calls' = calls + 1
    /\ UNCHANGED <<orch_vars, processed, projects, pydantic, component_vars, task_vars, caller_context>>

TaskNext ==
    \/ \E task \in Tasks, call \in TaskCalls : Call(task, call)
    \/ \E task \in Tasks : Acquire(task)
    \/ \E task \in Tasks : StartWorkflowLocked(task)
    \/ \E task \in Tasks : TransitionToPhaseLocked(task)
    \/ \E task \in Tasks : UpdateContextFetch(task)
    \/ \E task \in Tasks : UpdateContextFinish(task)
    \/ \E p \in Projects : CreateContextUnlocked(p)
    \/ \E op \in {"retrieve_context", "get_context"}, context_id \in ContextIds :
          RetrieveContext(op, context_id)
    \/ \E wid \in WorkflowIdArgs, agent_id \in Agents, role \in Roles :
          AssignAgentToWorkflow(wid, agent_id, role)
    \/ \E context_id \in ContextIds : MaintainSymbolicConsistency(context_id)

TaskSpec == Init /\ [][TaskNext]_vars

\* the calls that enter a lock, on their own: the targets are the first three
\* phases, the batches none and one update
LockedTargets == {DISCOVERY, PLANNING, ARCHITECTURE}

LockedCalls ==
    {[IdleTask EXCEPT !.op = "start_workflow", !.project = p] : p \in Projects}
    \cup {[IdleTask EXCEPT !.op = "transition_to_phase", !.workflow_id = wid,
                           !.target_phase = target_phase,
                           !.trigger_reason = "User request"] :
            wid \in WorkflowIdArgs, target_phase \in LockedTargets}
    \cup {[IdleTask EXCEPT !.op = "update_context", !.context_id = context_id,
                           !.batch = batch] :
            context_id \in ContextIds, batch \in {<<>>, <<1>>}}

\* what a task that is not idle does next
Step(task) ==
    \/ Acquire(task)
    \/ StartWorkflowLocked(task)
    \/ TransitionToPhaseLocked(task)
    \/ UpdateContextFetch(task)
    \/ UpdateContextFinish(task)

LockedNext ==
    \/ \E task \in Tasks, call \in LockedCalls : Call(task, call)
    \/ \E task \in Tasks : Step(task)

LockedSpec == Init /\ [][LockedNext]_vars

\* the locked calls under fair scheduling: the event loop runs every task
\* that can run, and asyncio.Lock wakes its waiters in the order they
\* arrived, so a task whose next step is possible again and again takes it.
\* The calls: a start_workflow that returns, transitions to a phase and to a
\* string that is no phase, of a stored and of an unknown workflow, and an
\* update_context
FairCalls ==
    {[IdleTask EXCEPT !.op = "start_workflow", !.project = 2]}
    \cup {[IdleTask EXCEPT !.op = "transition_to_phase", !.workflow_id = wid,
                           !.target_phase = target_phase,
                           !.trigger_reason = "User request"] :
            wid \in WorkflowIdArgs, target_phase \in {PLANNING, "bogus"}}
    \cup {[IdleTask EXCEPT !.op = "update_context", !.context_id = context_id,
                           !.batch = <<1>>] :
            context_id \in ContextIds}

FairNext ==
    \/ \E task \in Tasks, call \in FairCalls : Call(task, call)
    \/ \E task \in Tasks : Step(task)

FairLockedSpec ==
    /\ Init
    /\ [][FairNext]_vars
    /\ \A task \in Tasks : SF_vars(Step(task))

\* ------------------------------------------------- the validator on its own
\* is_consistent: len(find_inconsistencies(context)) == 0, or the TypeError
is_consistent(context) ==
    LET found == find_inconsistencies(context) IN
    [outcome |-> found.outcome,
     value |-> found.outcome = "returned" /\ found.list = {}]

\* validate_update's updates are dicts read with .get("type") and .get("data")
TestUpdates ==
    {[type |-> "requirements", data |-> ("new_req" :> "x")],
     [type |-> "symbolic_data", data |-> ("s1" :> DanglingChildData)]}

\* the lists of updates callers pass to validate_update
UpdateLists == UNION {[1..n -> TestUpdates] : n \in 0..MaxBatch}

\* _apply_test_update: routes the data by type, stamps updated_at, bumps version
_apply_test_update(context, update, t) ==
    LET routed ==
            IF update.type = "requirements"
            THEN [context EXCEPT !.requirements = DictUpdate(@, update.data)]
            ELSE IF update.type = "specifications"
            THEN [context EXCEPT !.specifications = DictUpdate(@, update.data)]
            ELSE IF update.type = "architecture"
            THEN [context EXCEPT !.architecture = DictUpdate(@, update.data)]
            ELSE IF update.type = "implementation"
            THEN [context EXCEPT !.implementation = DictUpdate(@, update.data)]
            ELSE IF update.type = "symbolic_data"
            THEN [context EXCEPT !.symbolic_data = DictUpdate(@, update.data)]
            ELSE IF update.type = "symbolic_references"
            THEN [context EXCEPT !.symbolic_references = DictUpdate(@, update.data)]
            ELSE context
    IN  [routed EXCEPT !.updated_at = NaiveNow(t), !.version = @ + 1]

RECURSIVE ApplyTestUpdates(_, _, _)
\* the loop of validate_update over the updates
ApplyTestUpdates(context, updates, t) ==
    IF updates = <<>> THEN context
    ELSE ApplyTestUpdates(_apply_test_update(context, Head(updates), t), Tail(updates), t)

\* a variant that hands back the object itself instead of a copy
model_copy_same_object(context, impl) ==
    [outcome |-> "returned", copy |-> context, same_object |-> TRUE]

\* context.model_copy(deep=True): models/base.py delegates to self.copy, which
\* the pydantic package provides (a deep copy) and the bundled stub does not
model_copy(context, impl) ==
    IF impl = "stub"
    THEN [outcome |-> "AttributeError", copy |-> context, same_object |-> FALSE]
    ELSE [outcome |-> "returned", copy |-> context, same_object |-> FALSE]

\* validate_update: how the call ends, the errors it returns and what the
\* caller's context object holds afterwards
validate_update(context, updates, t, impl) ==
    LET copied == model_copy(context, impl)
        test_context == ApplyTestUpdates(copied.copy, updates, t)
        found == find_inconsistencies(test_context)
        after == IF copied.same_object THEN test_context ELSE context
    IN  IF copied.outcome # "returned"
        THEN [outcome |-> copied.outcome, errors |-> {}, context |-> context]
        ELSE IF found.outcome # "returned"
        THEN [outcome |-> found.outcome, errors |-> {}, context |-> after]
        ELSE [outcome |-> "returned", errors |-> found.list, context |-> after]

\* a SymbolicData with every relation unset
PlainData(sym_id) ==
    [symbolic_id |-> sym_id, symbolic_type |-> "requirements", symbolic_name |-> "Name",
     parent_symbolic_id |-> NoneStr, child_symbolic_ids |-> {}, related_symbolic_ids |-> {}]

\* the symbolic_data maps a caller builds: empty, well-formed, nameless,
\* typeless, dangling parent / child / related, and every relation resolved
SymbolicDataMaps ==
    {EmptyMap,
     "s1" :> PlainData("s1"),
     "s1" :> [PlainData("s1") EXCEPT !.symbolic_name = NoneStr],
     "s1" :> [PlainData("s1") EXCEPT !.symbolic_type = NoneStr],
     "s1" :> [PlainData("s1") EXCEPT !.parent_symbolic_id = "ghost"],
     "s1" :> DanglingChildData,
     "s1" :> [PlainData("s1") EXCEPT !.related_symbolic_ids = {"ghost"}],
     ("s1" :> [PlainData("s1") EXCEPT !.parent_symbolic_id = "s2",
                                      !.child_symbolic_ids = {"s2"},
                                      !.related_symbolic_ids = {"s2"}])
        @@ ("s2" :> PlainData("s2"))}

\* a SymbolicReference naming the symbolic data "s1"
PlainReference ==
    [reference_id |-> "r1", reference_type |-> "requirement", symbolic_name |-> "s1",
     symbolic_type |-> "requirements", target_id |-> NoneId, resolved |-> FALSE,
     resolved_at |-> NoTime]

\* the symbolic_references maps a caller builds
SymbolicReferenceMaps ==
    {EmptyMap,
     "r1" :> PlainReference,
     "r1" :> [PlainReference EXCEPT !.symbolic_name = NoneStr],
     "r1" :> [PlainReference EXCEPT !.reference_type = NoneStr],
     "r1" :> [PlainReference EXCEPT !.symbolic_name = "ghost"]}

\* (created_at, updated_at), all before the first call: the defaults (both
\* offset-aware), created after updated, updated_at stamped with
\* datetime.utcnow() as _apply_updates does, and both offset-naive
TimestampPairs ==
    {<<AwareNow(0), AwareNow(0)>>, <<AwareNow(0), AwareNow(-1)>>,
     <<AwareNow(-1), NaiveNow(0)>>, <<NaiveNow(-1), NaiveNow(0)>>}

\* SpecDrivenContext(id=..., name=..., status=..., project_id=...) with defaults
BaseContext == SpecDrivenContext(1, [id |-> 1, name |-> "Acme"], 0)

\* the contexts a caller hands to the validator: the symbolic families with
\* the other fields at their defaults, and the plain fields in every combination
InputContexts ==
    {[BaseContext EXCEPT !.symbolic_data = sd, !.symbolic_references = refs,
                         !.project_id = project_id,
                         !.created_at = ts[1], !.updated_at = ts[2]] :
        sd \in SymbolicDataMaps, refs \in SymbolicReferenceMaps,
        project_id \in {NoneId, 1}, ts \in TimestampPairs}
    \cup
    {[BaseContext EXCEPT !.project_id = project_id, !.context_type = context_type,
                         !.version = version, !.version_history = version_history,
                         !.update_history = updates,
                         !.created_at = ts[1], !.updated_at = ts[2]] :
        project_id \in {NoneId, 1},
        context_type \in {"spec_driven", "legacy", "migrated", "archived"},
        version \in 0..2, version_history \in {<<>>, <<1>>},
        updates \in {<<>>, <<1>>}, ts \in TimestampPairs}

ValidatorInit ==
    /\ Constructed
    /\ caller_context \in InputContexts
    /\ references = <<>>
    /\ resolved_data = <<>>

FindInconsistencies ==
    /\ calls < MaxCalls
    /\ LET r == find_inconsistencies(caller_context) IN
        last' = [NoCall EXCEPT !.op = "find_inconsistencies", !.outcome = r.outcome,
                               !.errors = r.list]
    /\ calls' = calls + 1
    /\ UNCHANGED <<orch_vars, engine_vars, projects, pydantic, component_vars, task_vars, caller_context>>

IsConsistent ==
    /\ calls < MaxCalls
    /\ LET r == is_consistent(caller_context) IN
        last' = [NoCall EXCEPT !.op = "is_consistent", !.outcome = r.outcome,
                               !.is_consistent = r.value]
    /\ calls' = calls + 1
    /\ UNCHANGED <<orch_vars, engine_vars, projects, pydantic, component_vars, task_vars, caller_context>>

ValidateUpdate(updates) ==
    /\ calls < MaxCalls
    /\ LET r == validate_update(caller_context, updates, calls + 1, pydantic) IN
        /\ caller_context' = r.context
        /\ last' = [NoCall EXCEPT !.op = "validate_update", !.outcome = r.outcome,
                                  !.errors = r.errors, !.updates = updates]
    /\ calls' = calls + 1
    /\ UNCHANGED <<orch_vars, engine_vars, projects, pydantic, component_vars, task_vars>>

\* maintain_symbolic_consistency(context) on a context object: how the call
\* ends and the object it leaves
maintain_consistency_of(context, t) ==
    LET found == find_inconsistencies(context) IN
    IF found.outcome # "returned"
    THEN [outcome |-> found.outcome, context |-> context]
    ELSE IF found.list = {}
    THEN [outcome |-> "returned", context |-> context]
    ELSE [outcome |-> "returned",
          context |-> _resolve_inconsistencies(context, found.list, t)]

MaintainCallerContext ==
    /\ calls < MaxCalls
    /\ LET r == maintain_consistency_of(caller_context, calls + 1) IN
        /\ caller_context' = r.context
        /\ last' = [NoCall EXCEPT !.op = "maintain_symbolic_consistency",
                                  !.outcome = r.outcome]
    /\ calls' = calls + 1
    /\ UNCHANGED <<orch_vars, engine_vars, projects, pydantic, component_vars, task_vars>>

ValidatorNext ==
    \/ FindInconsistencies
    \/ IsConsistent
    \/ \E updates \in UpdateLists : ValidateUpdate(updates)
    \/ MaintainCallerContext

ValidatorSpec == ValidatorInit /\ [][ValidatorNext]_vars

\* ------------------------------------------------- the reference resolver
\* SymbolicReference(reference_id=..., symbolic_name=..., ...) as a caller builds
\* it: unresolved, resolved_at None, resolution_data None (the empty map here)
SymbolicReference(reference_id, symbolic_name) ==
    [reference_id |-> reference_id, reference_type |-> "requirement",
     symbolic_name |-> symbolic_name, symbolic_type |-> "requirements",
     target_id |-> NoneId, target_path |-> NoneStr, resolved |-> FALSE,
     resolved_at |-> NoTime, resolution_data |-> EmptyMap]

\* the SymbolicReference objects callers build
ReferenceObjects ==
    {SymbolicReference(reference_id, symbolic_name) :
        reference_id \in {"r1", "r2"}, symbolic_name \in {"s1", "s2"}}

\* _perform_resolution: the placeholder dictionary; "data" is
\* f"Resolved data for {reference.symbolic_name}", kept as the name itself
_perform_resolution(reference) ==
    [resolved |-> TRUE, reference_id |-> reference.reference_id,
     target_path |-> reference.target_path, data |-> reference.symbolic_name]

\* a variant of resolve that never looks into the cache
resolve_uncached(cache, reference, t) ==
    LET resolved_data_ == _perform_resolution(reference) IN
    [data |-> resolved_data_,
     cache |-> DictUpdate(cache, reference.reference_id :> resolved_data_),
     reference |-> [reference EXCEPT !.resolved = TRUE, !.resolved_at = AwareNow(t),
                                     !.resolution_data = ("cached" :> TRUE)],
     performed |-> 1]

\* SymbolicReferenceResolver.resolve: the data returned, the cache and the
\* reference object it leaves, and how many resolutions it performed
resolve(cache, reference, t) ==
    IF reference.reference_id \in DOMAIN cache
    THEN [data |-> cache[reference.reference_id], cache |-> cache,
          reference |-> reference, performed |-> 0]
    ELSE LET resolved_data_ == _perform_resolution(reference) IN
         [data |-> resolved_data_,
          cache |-> DictUpdate(cache, reference.reference_id :> resolved_data_),
          reference |-> [reference EXCEPT !.resolved = TRUE, !.resolved_at = AwareNow(t),
                                          !.resolution_data = ("cached" :> TRUE)],
          performed |-> 1]

\* the engine and a caller holding MaxReferences reference objects
ResolverInit ==
    /\ Constructed
    /\ caller_context = NoContext
    /\ references \in [1..MaxReferences -> ReferenceObjects]
    /\ resolved_data = [ref \in 1..MaxReferences |-> NoData]

\* engine.resolve_symbolic_reference(reference) ->
\* symbolic_engine.resolve_symbolic_reference -> reference_resolver.resolve
ResolveSymbolicReference(ref) ==
    /\ calls < MaxCalls
    /\ LET r == resolve(resolution_cache, references[ref], calls + 1) IN
        /\ resolution_cache' = r.cache
        /\ resolutions' = resolutions + r.performed
        /\ references' = [references EXCEPT ![ref] = r.reference]
        /\ resolved_data' = [resolved_data EXCEPT ![ref] = r.data]
        /\ last' = [NoCall EXCEPT !.op = "resolve_symbolic_reference",
                                  !.outcome = "returned", !.reference = ref,
                                  !.data = r.data]
    /\ calls' = calls + 1
    /\ UNCHANGED <<orch_vars, engine_vars, projects, pydantic, manager_vars, artifact_vars,
                   task_vars, caller_context>>

ResolverNext == \E ref \in DOMAIN references : ResolveSymbolicReference(ref)

ResolverSpec == ResolverInit /\ [][ResolverNext]_vars

\* ------------------------------------------------------- the state manager
\* the state manager's dictionaries as one value
Manager == [states |-> states, state_history |-> state_history, objs |-> manager_objs]

\* create_state: stores a new WorkflowState (phase_started_at from
\* datetime.utcnow()) as the current one and appends it to the history
create_state(mgr, wid, phase, t) ==
    LET state_id == FreshId(DOMAIN mgr.objs)
        state == [WorkflowState(state_id, wid, phase, t) EXCEPT
                     !.phase_started_at = NaiveNow(t)]
        history == IF wid \in DOMAIN mgr.state_history THEN mgr.state_history[wid] ELSE <<>>
    IN  [outcome |-> "returned", state_id |-> state_id,
         mgr |-> [states |-> DictUpdate(mgr.states, wid :> state_id),
                  state_history |-> DictUpdate(mgr.state_history,
                                               wid :> Append(history, state_id)),
                  objs |-> (state_id :> state) @@ mgr.objs]]

\* a variant of the check that wants a strictly later phase
_validate_transition_strict(current_state, new_phase) ==
    IF current_state.current_phase \notin Range(phase_order)
       \/ new_phase \notin Range(phase_order)
    THEN FALSE
    ELSE index(phase_order, new_phase) > index(phase_order, current_state.current_phase)

\* WorkflowStateManager._validate_transition
_validate_transition(current_state, new_phase) ==
    IF current_state.current_phase = new_phase
    THEN TRUE
    ELSE IF current_state.current_phase \notin Range(phase_order)
            \/ new_phase \notin Range(phase_order)
         THEN FALSE   \* phase_order.index raises ValueError
         ELSE index(phase_order, new_phase) >= index(phase_order, current_state.current_phase)

\* transition_state: how the call ends, the id of the state it returns (NoneId
\* for None) and the manager it leaves; transition_data is left at None
transition_state(mgr, wid, new_phase, t) ==
    IF wid \notin DOMAIN mgr.states
    THEN [outcome |-> "returned", state_id |-> NoneId, mgr |-> mgr]
    ELSE LET current_id == mgr.states[wid] IN
         IF ~ _validate_transition(mgr.objs[current_id], new_phase)
         THEN [outcome |-> "ValueError", state_id |-> NoneId, mgr |-> mgr]
         ELSE LET stamped == [mgr EXCEPT
                                 !.objs[current_id].phase_completed_at = NaiveNow(t)]
                  created == create_state(stamped, wid, new_phase, t)
              IN  [outcome |-> "returned", state_id |-> created.state_id,
                   \* self.state_history[workflow_id].append(new_state), again
                   mgr |-> [created.mgr EXCEPT
                              !.state_history[wid] = Append(@, created.state_id)]]

\* the phases callers pass to the two trackers
TrackerTargets == Range(phase_order) \cup {"bogus"}

\* start_workflow while fewer than MaxWorkflows workflows exist
TrackedStartWorkflow(p) ==
    /\ Cardinality(DOMAIN workflows) < MaxWorkflows
    /\ StartWorkflow(p)

CreateState(wid, phase) ==
    /\ calls < MaxCalls
    /\ LET r == create_state(Manager, wid, phase, calls + 1) IN
        /\ states' = r.mgr.states
        /\ state_history' = r.mgr.state_history
        /\ manager_objs' = r.mgr.objs
        /\ last' = [NoCall EXCEPT !.op = "create_state", !.outcome = r.outcome,
                                  !.workflow_id = wid, !.target_phase = phase,
                                  !.state_id = r.state_id]
    /\ calls' = calls + 1
    /\ UNCHANGED <<orch_vars, engine_vars, projects, pydantic, resolver_vars, artifact_vars,
                   task_vars, caller_context>>

TransitionState(wid, new_phase) ==
    /\ calls < MaxCalls
    /\ LET r == transition_state(Manager, wid, new_phase, calls + 1) IN
        /\ states' = r.mgr.states
        /\ state_history' = r.mgr.state_history
        /\ manager_objs' = r.mgr.objs
        /\ last' = [NoCall EXCEPT !.op = "transition_state", !.outcome = r.outcome,
                                  !.workflow_id = wid, !.target_phase = new_phase,
                                  !.state_id = r.state_id]
    /\ calls' = calls + 1
    /\ UNCHANGED <<orch_vars, engine_vars, projects, pydantic, resolver_vars, artifact_vars,
                   task_vars, caller_context>>

TrackerNext ==
    \/ \E p \in Projects : TrackedStartWorkflow(p)
    \/ \E wid \in DOMAIN workflows, target_phase \in TrackerTargets :
          TransitionToPhase(wid, target_phase, "User request")
    \/ \E wid \in DOMAIN workflows, phase \in Range(phase_order) : CreateState(wid, phase)
    \/ \E wid \in WorkflowIdArgs, new_phase \in TrackerTargets :
          TransitionState(wid, new_phase)

TrackerSpec == Init /\ [][TrackerNext]_vars

\* ------------------------------------------------------- a workflow followed
\* get_workflow_status: the summary of a stored workflow (its
\* progress_percentage in tenths of a percent), {"error": ...} otherwise
get_workflow_status(orch, wid) ==
    IF wid \notin DOMAIN orch.workflows
    THEN [found |-> FALSE, progress_percentage |-> 0]
    ELSE [found |-> TRUE,
          progress_percentage |-> _calculate_progress(orch.workflows[wid])]

GetWorkflowStatus(wid) ==
    /\ calls < MaxProgressCalls
    /\ LET r == get_workflow_status(Orch, wid) IN
        last' = [NoCall EXCEPT !.op = "get_workflow_status", !.outcome = "returned",
                               !.workflow_id = wid, !.value = r.found,
                               !.progress_percentage = r.progress_percentage]
    /\ calls' = calls + 1
    /\ UNCHANGED <<orch_vars, engine_vars, projects, pydantic, component_vars, task_vars,
                   caller_context>>

\* transition_to_phase, called as often as MaxProgressCalls allows
TransitionToPhaseOften(wid, target_phase) ==
    /\ calls < MaxProgressCalls
    /\ LET r == transition_to_phase(Orch, wid, target_phase, "User request", calls + 1) IN
        /\ workflows' = r.orch.workflows
        /\ workflow_states' = r.orch.workflow_states
        /\ state_objs' = r.orch.state_objs
        /\ transition_history' = r.orch.transition_history
        /\ last' = [NoCall EXCEPT !.op = "transition_to_phase", !.outcome = r.outcome,
                                  !.workflow_id = wid, !.target_phase = target_phase,
                                  !.trigger_reason = "User request"]
    /\ calls' = calls + 1
    /\ UNCHANGED <<engine_vars, projects, pydantic, component_vars, task_vars, caller_context>>

\* the targets of a workflow that is asked for its phase again and moved on
ProgressTargets == {DISCOVERY, PLANNING}

\* the one workflow that is followed is started in a fresh orchestrator
StartFollowedWorkflow ==
    /\ workflows = EmptyMap
    /\ StartWorkflow(2)

ProgressNext ==
    \/ StartFollowedWorkflow
    \/ \E wid \in DOMAIN workflows, target_phase \in ProgressTargets :
          TransitionToPhaseOften(wid, target_phase)
    \/ \E wid \in WorkflowIdArgs : GetWorkflowStatus(wid)

ProgressSpec == Init /\ [][ProgressNext]_vars

\* ------------------------------------------------------- a tracked state updated
\* WorkflowStateManager._validate_state at time t; the phase validators all
\* answer valid, and a phase without one is valid too
_validate_state(state, t) ==
    IF state.workflow_id = NoneId
    THEN FALSE
    ELSE IF state.current_phase = NoneStr
         THEN FALSE
         ELSE ~ (state.phase_started_at.t > t)

\* update_state: every key of updates the state has is assigned on the stored
\* object, updated_at is stamped, and only then the state is validated; a
\* valid state is stored again and appended to the history
update_state(mgr, wid, updates, t) ==
    IF wid \notin DOMAIN mgr.states
    THEN [outcome |-> "returned", state_id |-> NoneId, mgr |-> mgr]
    ELSE LET state_id == mgr.states[wid]
             state == mgr.objs[state_id]
             applied == [key \in DOMAIN state |->
                            IF key \in DOMAIN updates THEN updates[key] ELSE state[key]]
             stamped == [applied EXCEPT !.updated_at = NaiveNow(t)]
             assigned == [mgr EXCEPT !.objs[state_id] = stamped]
         IN  IF ~ _validate_state(stamped, t)
             THEN [outcome |-> "ValueError", state_id |-> NoneId, mgr |-> assigned]
             ELSE [outcome |-> "returned", state_id |-> state_id,
                   mgr |-> [assigned EXCEPT
                              !.states[wid] = state_id,
                              !.state_history[wid] = Append(@, state_id)]]

\* get_state_summary: an error for a workflow without a tracked state, else
\* the current state's fields and the length of the workflow's history
get_state_summary(mgr, wid) ==
    IF wid \notin DOMAIN mgr.states
    THEN [error |-> "State not found"]
    ELSE LET state == mgr.objs[mgr.states[wid]]
             history == IF wid \in DOMAIN mgr.state_history
                        THEN mgr.state_history[wid] ELSE <<>>
         IN  [workflow_id |-> wid,
              current_phase |-> state.current_phase,
              phase_started_at |-> state.phase_started_at,
              phase_completed_at |-> state.phase_completed_at,
              total_states |-> Len(history)]

\* the updates callers pass at time t: a later phase, a key the state does not
\* have, a phase start in the future, and a later phase with such a start
StateUpdates(t) ==
    {[current_phase |-> PLANNING],
     [nonexistent |-> 1],
     [phase_started_at |-> NaiveNow(t + 1)],
     [current_phase |-> ARCHITECTURE, phase_started_at |-> NaiveNow(t + 1)]}

UpdateState(wid, updates) ==
    /\ calls < MaxCalls
    /\ LET r == update_state(Manager, wid, updates, calls + 1) IN
        /\ states' = r.mgr.states
        /\ state_history' = r.mgr.state_history
        /\ manager_objs' = r.mgr.objs
        /\ last' = [NoCall EXCEPT !.op = "update_state", !.outcome = r.outcome,
                                  !.workflow_id = wid, !.data = updates,
                                  !.state_id = r.state_id]
    /\ calls' = calls + 1
    /\ UNCHANGED <<orch_vars, engine_vars, projects, pydantic, resolver_vars, artifact_vars,
                   task_vars, caller_context>>

UpdateTargets == {DISCOVERY, PLANNING}

UpdateNext ==
    \/ StartFollowedWorkflow
    \/ \E wid \in DOMAIN workflows : CreateState(wid, DISCOVERY)
    \/ \E wid \in WorkflowIdArgs, new_phase \in UpdateTargets :
          TransitionState(wid, new_phase)
    \/ \E wid \in WorkflowIdArgs, updates \in StateUpdates(calls + 1) :
          UpdateState(wid, updates)

UpdateSpec == Init /\ [][UpdateNext]_vars

\* ------------------------------------------------ a batch applied to a context
\* _apply_updates on the contexts a caller holds; the argument is copied and
\* stays as it was
RequirementMaps ==
    {EmptyMap, ("old_req" :> "o"), ("new_req" :> "o") @@ ("old_req" :> "o")}

BatchContexts ==
    {[BaseContext EXCEPT !.requirements = requirements] : requirements \in RequirementMaps}

BatchInit ==
    /\ Constructed
    /\ caller_context \in BatchContexts
    /\ references = <<>>
    /\ resolved_data = <<>>

ApplyBatch(batch) ==
    /\ calls < MaxCalls
    /\ LET r == _apply_updates(caller_context, batch, calls + 1, pydantic) IN
        last' = [NoCall EXCEPT !.op = "_apply_updates", !.outcome = r.outcome,
                               !.batch = batch,
                               !.returned_context = IF r.outcome = "returned"
                                                    THEN r.context ELSE NoContext]
    /\ calls' = calls + 1
    /\ UNCHANGED <<orch_vars, engine_vars, projects, pydantic, component_vars, task_vars,
                   caller_context>>

BatchNext == \E batch \in Batches : ApplyBatch(batch)

BatchSpec == BatchInit /\ [][BatchNext]_vars

\* ------------------------------------------------------- the artifact manager
\* core/artifact_manager.py.  artifact_id is str(uuid4()) and Artifact.id is
\* uuid4(): fresh numbers here.  A version string is kept as the list that
\* version.split(".") gives, "1.0.0" being <<"1", "0", "0">>.
MaxArtifactCalls == 5

Contents == {"hello", "world!"}

\* hashlib.sha256(content.encode()).hexdigest()
sha256(content) ==
    CASE content = "hello" ->
           "2cf24dba5fb0a30e26e83b2ac5b9e29e1b161e5c1fa7425e73043362938b9824"
      [] content = "world!" ->
           "711e9609339e92b03ddc0a211827dba421f38f9ed8b9d806e1ffdd8c15ffa03d"

\* len(content.encode())
byte_length(content) ==
    CASE content = "hello" -> 5
      [] content = "world!" -> 6

\* str(n) of the numbers a patch component reaches, and int(s) back
DecimalStrings == <<"0", "1", "2", "3", "4", "5", "6", "7", "8", "9">>
str(n) == DecimalStrings[n + 1]
IsDecimal(s) == s \in Range(DecimalStrings)
int(s) == CHOOSE n \in 0..(Len(DecimalStrings) - 1) : DecimalStrings[n + 1] = s

DefaultVersion == <<"1", "0", "0">>

\* int(patch) raises ValueError on a non-numeric patch, and the handler
\* answers like the short-version branch
_increment_version(version) ==
    IF Len(version) >= 3 /\ IsDecimal(version[3])
    THEN <<version[1], version[2], str(int(version[3]) + 1)>>
    ELSE Append(version, "1")

\* the keywords create_artifact passes to Artifact(...) itself; one of them
\* again in **kwargs is a TypeError (multiple values for keyword argument)
ExplicitKeywords ==
    {"id", "name", "description", "status", "artifact_id", "artifact_type",
     "artifact_name", "content", "checksum", "file_size", "generated_by",
     "project_id", "phase"}

CreateKwargs ==
    {EmptyMap, [version |-> <<"1", "0">>], [version |-> <<"1", "0", "x">>],
     [description |-> "d"]}

UpdateKwargs == {EmptyMap, [changes |-> "typo", checksum |-> "bogus"]}

RelationshipTypes == {"dependency", "related", "supersedes", "bogus"}

\* the fields of Artifact the manager reads or writes; kwargs fill the rest
Artifact(id, artifact_id, content, kwargs, t) ==
    LET fields ==
            [id |-> id, artifact_id |-> artifact_id, content |-> content,
             checksum |-> sha256(content), file_size |-> byte_length(content),
             file_path |-> NoneStr, version |-> DefaultVersion,
             version_history |-> <<>>, updated_at |-> AwareNow(t),
             dependencies |-> <<>>, related_artifacts |-> <<>>,
             supersedes |-> <<>>, superseded_by |-> NoneId]
    IN  [f \in DOMAIN fields |-> IF f \in DOMAIN kwargs THEN kwargs[f] ELSE fields[f]]

\* the Python types of the values of artifact.model_dump() once created_at
\* and updated_at are replaced by their isoformat()
ModelDumpTypes ==
    [id |-> "UUID", name |-> "str", description |-> "str", status |-> "str",
     created_at |-> "str", updated_at |-> "str", artifact_id |-> "str",
     artifact_type |-> "str", artifact_name |-> "str", content |-> "str",
     checksum |-> "str", file_size |-> "int", file_path |-> "NoneType",
     version |-> "str", version_history |-> "list", project_id |-> "UUID",
     phase |-> "str", dependencies |-> "list", related_artifacts |-> "list",
     supersedes |-> "list", superseded_by |-> "NoneType"]

\* what json.dump serialises without a default= hook
JsonSerializable == {"str", "int", "float", "bool", "NoneType", "list", "dict"}

\* open(file_path, "w") creates the file before json.dump raises
_save_artifact_to_file(artifact) ==
    IF \A f \in DOMAIN ModelDumpTypes : ModelDumpTypes[f] \in JsonSerializable
    THEN [outcome |-> "returned", file |-> "complete",
          artifact |-> [artifact EXCEPT !.file_path = "file"]]
    ELSE [outcome |-> "TypeError", file |-> "partial", artifact |-> artifact]

_create_metadata(artifact) == [artifact_id |-> artifact.id, usage_count |-> 0]

_update_metadata(meta, artifact) ==
    IF artifact.id \in DOMAIN meta
    THEN [meta EXCEPT ![artifact.id].usage_count = @ + 1]
    ELSE meta

ArtifactManager == [artifacts |-> artifacts, metadata |-> metadata, files |-> files]

create_artifact(mgr, content, kwargs, t) ==
    IF DOMAIN kwargs \cap ExplicitKeywords # {}
    THEN [outcome |-> "TypeError", mgr |-> mgr, artifact_id |-> NoneId]
    ELSE
        LET artifact_id == FreshId(DOMAIN mgr.artifacts)
            artifact == Artifact(FreshId(DOMAIN mgr.metadata), artifact_id, content, kwargs, t)
            saved == _save_artifact_to_file(artifact)
        IN  [outcome |-> saved.outcome, artifact_id |-> artifact_id,
             mgr |-> [artifacts |-> mgr.artifacts @@ (artifact_id :> saved.artifact),
                      metadata |-> mgr.metadata @@ (artifact.id :> _create_metadata(artifact)),
                      files |-> mgr.files @@ (artifact_id :> saved.file)]]

update_artifact(mgr, artifact_id, content, kwargs, t, impl) ==
    IF artifact_id \notin DOMAIN mgr.artifacts
    THEN [outcome |-> "returned", mgr |-> mgr, found |-> FALSE]
    ELSE IF impl = "stub"
    THEN [outcome |-> "AttributeError", mgr |-> mgr, found |-> TRUE]
    ELSE
        LET artifact == mgr.artifacts[artifact_id]
            new_artifact ==
                [artifact EXCEPT
                    !.content = content,
                    !.checksum = sha256(content),
                    !.file_size = byte_length(content),
                    !.updated_at = NaiveNow(t),
                    !.version = _increment_version(artifact.version),
                    !.version_history =
                        Append(@, [version |-> artifact.version,
                                   timestamp |-> artifact.updated_at,
                                   changes |-> IF "changes" \in DOMAIN kwargs
                                               THEN kwargs.changes
                                               ELSE "Content updated"])]
            with_properties ==
                [f \in DOMAIN new_artifact |->
                    IF f \in DOMAIN kwargs THEN kwargs[f] ELSE new_artifact[f]]
            saved == _save_artifact_to_file(with_properties)
        IN  [outcome |-> saved.outcome, found |-> TRUE,
             mgr |-> [artifacts |-> [mgr.artifacts EXCEPT ![artifact_id] = saved.artifact],
                      metadata |-> _update_metadata(mgr.metadata, with_properties),
                      files |-> [mgr.files EXCEPT ![artifact_id] = saved.file]]]

append_unless_present_always(list, item) == Append(list, item)

\* if related_artifact_id not in <list>: <list>.append(related_artifact_id)
append_unless_present(list, item) ==
    IF item \in Range(list) THEN list ELSE Append(list, item)

add_artifact_relationship_symmetric(stored, artifact_id, related_artifact_id, relationship_type) ==
    IF artifact_id \notin DOMAIN stored \/ related_artifact_id \notin DOMAIN stored
    THEN [value |-> FALSE, artifacts |-> stored]
    ELSE IF relationship_type = "dependency"
    THEN [value |-> TRUE,
          artifacts |-> [stored EXCEPT ![artifact_id].dependencies =
                            append_unless_present(@, related_artifact_id)]]
    ELSE IF relationship_type = "related"
    THEN [value |-> TRUE,
          artifacts |-> [stored EXCEPT ![artifact_id].related_artifacts =
                            append_unless_present(@, related_artifact_id)]]
    ELSE IF relationship_type = "supersedes"
    THEN [value |-> TRUE,
          artifacts |-> [stored EXCEPT
                            ![artifact_id].supersedes = Append(@, related_artifact_id),
                            ![artifact_id].superseded_by = related_artifact_id,
                            ![related_artifact_id].superseded_by = artifact_id]]
    ELSE [value |-> FALSE, artifacts |-> stored]

\* artifact and related_artifact are the stored objects, changed in place
add_artifact_relationship(stored, artifact_id, related_artifact_id, relationship_type) ==
    IF artifact_id \notin DOMAIN stored \/ related_artifact_id \notin DOMAIN stored
    THEN [value |-> FALSE, artifacts |-> stored]
    ELSE IF relationship_type = "dependency"
    THEN [value |-> TRUE,
          artifacts |-> [stored EXCEPT ![artifact_id].dependencies =
                            append_unless_present(@, related_artifact_id)]]
    ELSE IF relationship_type = "related"
    THEN [value |-> TRUE,
          artifacts |-> [stored EXCEPT ![artifact_id].related_artifacts =
                            append_unless_present(@, related_artifact_id)]]
    ELSE IF relationship_type = "supersedes"
    THEN [value |-> TRUE,
          artifacts |-> [stored EXCEPT
                            ![artifact_id].supersedes = Append(@, related_artifact_id),
                            ![related_artifact_id].superseded_by = artifact_id]]
    ELSE [value |-> FALSE, artifacts |-> stored]

\* the call names a relationship the stored artifact already lists
AlreadyRelated(artifact_id, related_artifact_id, relationship_type) ==
    /\ artifact_id \in DOMAIN artifacts
    /\ related_artifact_id \in DOMAIN artifacts
    /\ \/ /\ relationship_type = "dependency"
          /\ related_artifact_id \in Range(artifacts[artifact_id].dependencies)
       \/ /\ relationship_type = "related"
          /\ related_artifact_id \in Range(artifacts[artifact_id].related_artifacts)
       \/ /\ relationship_type = "supersedes"
          /\ related_artifact_id \in Range(artifacts[artifact_id].supersedes)

\* the ids a caller passes: those of the stored artifacts and one of none
ArtifactIds == DOMAIN artifacts \cup {FreshId(DOMAIN artifacts)}

CreateArtifact(content, kwargs) ==
    /\ calls < MaxArtifactCalls
    /\ LET r == create_artifact(ArtifactManager, content, kwargs, calls + 1) IN
        /\ artifacts' = r.mgr.artifacts
        /\ metadata' = r.mgr.metadata
        /\ files' = r.mgr.files
        /\ last' = [NoCall EXCEPT !.op = "create_artifact", !.outcome = r.outcome,
                                  !.artifact_id = r.artifact_id, !.content = content]
    /\ calls' = calls + 1
    /\ UNCHANGED <<orch_vars, engine_vars, projects, pydantic, resolver_vars, manager_vars,
                   task_vars, caller_context>>

UpdateArtifact(artifact_id, content, kwargs) ==
    /\ calls < MaxArtifactCalls
    /\ LET r == update_artifact(ArtifactManager, artifact_id, content, kwargs, calls + 1,
                                pydantic) IN
        /\ artifacts' = r.mgr.artifacts
        /\ metadata' = r.mgr.metadata
        /\ files' = r.mgr.files
        /\ last' = [NoCall EXCEPT !.op = "update_artifact", !.outcome = r.outcome,
                                  !.artifact_id = artifact_id, !.content = content,
                                  !.value = r.found]
    /\ calls' = calls + 1
    /\ UNCHANGED <<orch_vars, engine_vars, projects, pydantic, resolver_vars, manager_vars,
                   task_vars, caller_context>>

AddArtifactRelationship(artifact_id, related_artifact_id, relationship_type) ==
    /\ calls < MaxArtifactCalls
    /\ LET r == add_artifact_relationship(artifacts, artifact_id, related_artifact_id,
                                          relationship_type) IN
        /\ artifacts' = r.artifacts
        /\ last' = [NoCall EXCEPT !.op = "add_artifact_relationship",
                                  !.outcome = "returned", !.value = r.value,
                                  !.repeated = AlreadyRelated(artifact_id,
                                                              related_artifact_id,
                                                              relationship_type),
                                  !.artifact_id = artifact_id,
                                  !.related_artifact_id = related_artifact_id,
                                  !.relationship_type = relationship_type]
    /\ calls' = calls + 1
    /\ UNCHANGED <<orch_vars, engine_vars, projects, pydantic, resolver_vars, manager_vars,
                   task_vars, caller_context, metadata, files>>

\* artifacts created and updated
ArtifactNext ==
    /\ calls < MaxCalls
    /\ \/ \E content \in Contents, kwargs \in CreateKwargs : CreateArtifact(content, kwargs)
       \/ \E artifact_id \in ArtifactIds, content \in Contents, kwargs \in UpdateKwargs :
            UpdateArtifact(artifact_id, content, kwargs)

ArtifactSpec == Init /\ [][ArtifactNext]_vars

\* artifacts created and related to each other
RelationNext ==
    \/ CreateArtifact("hello", EmptyMap)
    \/ \E artifact_id \in ArtifactIds, related_artifact_id \in ArtifactIds,
          relationship_type \in RelationshipTypes :
            AddArtifactRelationship(artifact_id, related_artifact_id, relationship_type)

RelationSpec == Init /\ [][RelationNext]_vars

\* ===================================================================== claims
\* a call has just completed
Completed(op) == calls' = calls + 1 /\ last'.op = op

\* the position of a phase in DISCOVERY < PLANNING < ARCHITECTURE < DESIGN <
\* DEVELOPMENT < TESTING < DEPLOYMENT < COMPLETED; -1 for anything else
PhaseRank(p) ==
    CASE p = "discovery" -> 0
      [] p = "planning" -> 1
      [] p = "architecture" -> 2
      [] p = "design" -> 3
      [] p = "development" -> 4
      [] p = "testing" -> 5
      [] p = "deployment" -> 6
      [] p = "completed" -> 7
      [] OTHER -> -1

\* the violations of a context: the five checks of the validator
Violations(context) ==
    _check_symbolic_data_consistency(context)
    \cup _check_symbolic_references_consistency(context)
    \cup _check_cross_reference_consistency(context)
    \cup _check_data_integrity(context)
    \cup _check_version_consistency(context)

\* the latest create_context call returned and its Context is stored
CreateContextStored ==
    last.op = "create_context" =>
        /\ last.outcome = "returned"
        /\ \E cid \in DOMAIN contexts : contexts[cid].project_id = last.project

\* C1: given a Context stored by create_context, an update_context whose
\* batch, applied to a copy of the stored Context, yields a violation raises
\* ContextInconsistencyError and leaves the stored Context, the processed
\* flags and the engine's update log as they were.
C1_InconsistentBatchRejected ==
    [][ /\ CreateContextStored'
        /\ (Completed("update_context")
            /\ last'.context_id \in DOMAIN contexts
            /\ Violations(ApplyUpdates(contexts[last'.context_id], last'.batch, calls + 1)) # {})
           => /\ last'.outcome = "ContextInconsistencyError"
              /\ UNCHANGED <<contexts, update_history, processed>> ]_vars

\* C2: an update_context call either returns normally having committed its
\* whole batch (stored Context = the copy with every update applied, every
\* update processed and logged), or ends with an exception having changed
\* nothing; never a normal return without the commit.
C2_AllOrNothing ==
    [][ Completed("update_context") =>
        LET cid == last'.context_id
            batch == last'.batch
        IN  \/ /\ last'.outcome = "returned"
               /\ cid \in DOMAIN contexts
               /\ contexts' = [contexts EXCEPT
                                  ![cid] = ApplyUpdates(contexts[cid], batch, calls + 1)]
               /\ update_history' = [update_history EXCEPT ![cid] = @ \o batch]
               /\ processed' = processed \cup Range(batch)
            \/ /\ last'.outcome \notin {"returned", "none"}
               /\ UNCHANGED <<contexts, update_history, processed>> ]_vars

\* an update_context call with a non-empty batch that did not commit has
\* ended with an exception
C2_Witness ==
    /\ last.op = "update_context"
    /\ last.batch # <<>>
    /\ last.outcome = "ValueError"
    /\ Range(last.batch) \cap processed = {}

C4_CrossReferenceInvariant ==
    /\ last.op = "create_context" => last.context_id \in DOMAIN contexts
    /\ \A cid \in DOMAIN contexts :
          \A r \in DOMAIN contexts[cid].symbolic_references :
              contexts[cid].symbolic_references[r].symbolic_name
                  \in DOMAIN contexts[cid].symbolic_data

\* the update types that route to one of the four free-form maps
MapTypes == {"requirements", "specifications", "architecture", "implementation"}

\* C5: create_context returns a stored Context at version 1, and on such a
\* fresh Context update_context with k >= 1 updates of the four map types
\* returns with version 1 + k, every key/value of the batch in its map, the
\* k ids at the end of update_history and every update processed.
C5_FreshContextUpdateCommits ==
    [][ /\ Completed("create_context") =>
              /\ last'.outcome = "returned"
              /\ last'.context_id \in DOMAIN contexts'
              /\ contexts'[last'.context_id].version = 1
        /\ (Completed("update_context")
            /\ last'.context_id \in DOMAIN contexts
            /\ contexts[last'.context_id].version = 1
            /\ last'.batch # <<>>
            /\ \A i \in DOMAIN last'.batch :
                  ContextUpdates[last'.batch[i]].update_type \in MapTypes)
           => LET cid == last'.context_id
                  batch == last'.batch
                  ctx == contexts'[cid]
              IN  /\ last'.outcome = "returned"
                  /\ ctx.version = 1 + Len(batch)
                  /\ ctx.update_history = contexts[cid].update_history \o batch
                  /\ Range(batch) \subseteq processed'
                  /\ \A i \in DOMAIN batch :
                        LET u == ContextUpdates[batch[i]] IN
                        \A k \in DOMAIN u.update_data :
                           (\A j \in DOMAIN batch :
                               (j > i /\ ContextUpdates[batch[j]].update_type = u.update_type)
                                  => k \notin DOMAIN ContextUpdates[batch[j]].update_data)
                           => /\ k \in DOMAIN ctx[u.update_type]
                              /\ ctx[u.update_type][k] = u.update_data[k] ]_vars

\* C6: on a stored workflow whose current phase has rank c,
\* transition_to_phase(target) returns iff target is one of the eight phases
\* and its rank is >= c; otherwise it raises WorkflowOrchestrationError.
C6_TransitionAcceptedIffNotBackward ==
    [][ (Completed("transition_to_phase") /\ last'.workflow_id \in DOMAIN workflows)
        => LET c == PhaseRank(workflows[last'.workflow_id].current_phase)
               r == PhaseRank(last'.target_phase)
           IN  /\ last'.outcome = "returned" <=> (r >= 0 /\ r >= c)
               /\ last'.outcome # "returned"
                     => last'.outcome = "WorkflowOrchestrationError" ]_vars

\* a workflow went from DISCOVERY to TESTING in one accepted call
C6_Witness ==
    /\ last.op = "transition_to_phase"
    /\ last.outcome = "returned"
    /\ last.workflow_id \in DOMAIN workflows
    /\ LET wf == workflows[last.workflow_id] IN
          /\ wf.current_phase = TESTING
          /\ Len(wf.phase_history) = 1
          /\ wf.phase_history[1].from_phase = DISCOVERY

\* C7: a transition_to_phase call that raises (unknown workflow id, backward
\* or unrecognized target) leaves workflows, the WorkflowState objects, the
\* current-state binding and the transition histories as they were.
C7_FailedTransitionChangesNothing ==
    [][ (Completed("transition_to_phase") /\ last'.outcome # "returned")
        => UNCHANGED <<workflows, workflow_states, state_objs, transition_history>> ]_vars

\* a backward target was rejected on a workflow that had already advanced
C7_Witness ==
    /\ last.op = "transition_to_phase"
    /\ last.outcome = "WorkflowOrchestrationError"
    /\ last.workflow_id \in DOMAIN workflows
    /\ PhaseRank(last.target_phase) >= 0
    /\ PhaseRank(last.target_phase)
          < PhaseRank(workflows[last.workflow_id].current_phase)
    /\ Len(workflows[last.workflow_id].phase_history) >= 1

\* C8: no step moves a workflow's current_phase to an earlier phase, and no
\* step removes a workflow.
C8_PhaseNeverMovesBack ==
    [][ \A w \in DOMAIN workflows :
          /\ w \in DOMAIN workflows'
          /\ PhaseRank(workflows'[w].current_phase)
                >= PhaseRank(workflows[w].current_phase) ]_vars

\* two workflows exist and one of them has moved forward
C8_Witness ==
    /\ Cardinality(DOMAIN workflows) >= 2
    /\ \E w \in DOMAIN workflows :
          /\ PhaseRank(workflows[w].current_phase) > 0
          /\ Len(workflows[w].phase_history) >= 1

\* C9: a transition_to_phase call that returns, from phase p to target t,
\* sets current_phase to t, appends p to completed_phases, appends one
\* phase_history record (p, t, timestamp, reason), creates a WorkflowState for
\* t, rebinds state_id to it, appends its id to state_history and appends one
\* WorkflowTransition (p, t) to the transition history; and a workflow whose
\* only transition went to PLANNING is in PLANNING with DISCOVERY completed
\* and one phase_history record.
C9_SuccessfulTransitionEffects ==
    /\ [][ (Completed("transition_to_phase") /\ last'.outcome = "returned")
           => LET w == last'.workflow_id
                  t == last'.target_phase
                  old == workflows[w]
                  new == workflows'[w]
                  p == old.current_phase
                  rec == new.phase_history[Len(new.phase_history)]
                  tr == transition_history'[w][Len(transition_history'[w])]
              IN  /\ new.current_phase = t
                  /\ new.completed_phases = Append(old.completed_phases, p)
                  /\ Len(new.phase_history) = Len(old.phase_history) + 1
                  /\ SubSeq(new.phase_history, 1, Len(old.phase_history)) = old.phase_history
                  /\ rec.from_phase = p /\ rec.to_phase = t
                  /\ rec.reason = last'.trigger_reason
                  /\ rec.timestamp # NoTime
                  /\ new.state_id \notin DOMAIN state_objs
                  /\ new.state_id \in DOMAIN state_objs'
                  /\ state_objs'[new.state_id].current_phase = t
                  /\ workflow_states'[w] = new.state_id
                  /\ new.state_history = Append(old.state_history, new.state_id)
                  /\ Len(transition_history'[w]) = Len(transition_history[w]) + 1
                  /\ SubSeq(transition_history'[w], 1, Len(transition_history[w]))
                        = transition_history[w]
                  /\ tr.from_phase = p /\ tr.to_phase = t
                  /\ \A v \in DOMAIN workflows \ {w} : workflows'[v] = workflows[v] ]_vars
    /\ [](\A w \in DOMAIN workflows :
            (Len(transition_history[w]) = 1 /\ transition_history[w][1].to_phase = PLANNING)
            => /\ workflows[w].current_phase = PLANNING
               /\ workflows[w].completed_phases = <<DISCOVERY>>
               /\ Len(workflows[w].phase_history) = 1)

\* start_workflow followed by one transition to PLANNING
C9_Witness ==
    /\ last.op = "transition_to_phase"
    /\ last.outcome = "returned"
    /\ last.target_phase = PLANNING
    /\ last.workflow_id \in DOMAIN workflows
    /\ Len(transition_history[last.workflow_id]) = 1
    /\ workflows[last.workflow_id].current_phase = PLANNING

\* C10: transition_to_phase to the workflow's current phase is accepted and
\* leaves current_phase, completed_phases and the reported
\* progress_percentage as they were.
C10_SamePhaseIsNoOp ==
    [][ (Completed("transition_to_phase")
         /\ last'.workflow_id \in DOMAIN workflows
         /\ last'.target_phase = workflows[last'.workflow_id].current_phase)
        => LET w == last'.workflow_id IN
           /\ last'.outcome = "returned"
           /\ workflows'[w].current_phase = workflows[w].current_phase
           /\ workflows'[w].completed_phases = workflows[w].completed_phases
           /\ _calculate_progress(workflows'[w]) = _calculate_progress(workflows[w]) ]_vars

\* the tasks inside update_context's `async with`: lock taken, not yet released
InUpdate ==
    {task \in Tasks : tasks[task].op = "update_context"
                      /\ tasks[task].pc \in {"locked", "fetched"}}

C13_MutationsHoldLock ==
    [][ /\ contexts' # contexts
           => \E task \in Tasks : context_lock = task /\ tasks'[task] # tasks[task]
        /\ <<workflows, workflow_states, state_objs, transition_history>>'
              # <<workflows, workflow_states, state_objs, transition_history>>
           => \E task \in Tasks : workflow_lock = task /\ tasks'[task] # tasks[task] ]_vars

\* C14: start_workflow(project) returns; the WorkflowInstance it stores is
\* new, has project_id = project.id, current_phase DISCOVERY, status active,
\* empty completed_phases and phase_history; exactly one WorkflowState is
\* created, for DISCOVERY, its id is state_id and the only element of
\* state_history; the transition history of the workflow is empty.
C14_StartWorkflowResult ==
    [][ Completed("start_workflow")
        => LET w == last'.workflow_id
               sid == workflow_states'[w]
           IN  /\ last'.outcome = "returned"
               /\ w \notin DOMAIN workflows
               /\ DOMAIN workflows' = DOMAIN workflows \cup {w}
               /\ workflows'[w].project_id = projects[last'.project].id
               /\ workflows'[w].current_phase = DISCOVERY
               /\ workflows'[w].status = "active"
               /\ workflows'[w].completed_phases = <<>>
               /\ workflows'[w].phase_history = <<>>
               /\ sid \notin DOMAIN state_objs
               /\ DOMAIN state_objs' = DOMAIN state_objs \cup {sid}
               /\ state_objs'[sid].current_phase = DISCOVERY
               /\ state_objs'[sid].workflow_id = w
               /\ workflows'[w].state_id = sid
               /\ workflows'[w].state_history = <<sid>>
               /\ transition_history'[w] = <<>> ]_vars

\* C15: after start_workflow(project) returns, the stored workflow's
\* context_id is set and equals project.context_id; a project that already
\* had a context_id keeps it and no context is created for it.
C15_WorkflowBoundToContext ==
    [][ (Completed("start_workflow") /\ last'.outcome = "returned")
        => LET w == last'.workflow_id
               p == last'.project
           IN  /\ workflows'[w].context_id # NoneId
               /\ workflows'[w].context_id = projects'[p].context_id
               /\ projects[p].context_id # NoneId
                  => /\ projects'[p].context_id = projects[p].context_id
                     /\ contexts' = contexts ]_vars

\* C16: update_context on a context id that is not stored raises the
\* not-found error (ValueError), leaves that id without a Context and marks
\* no update processed; retrieve_context and get_context for such an id
\* return None without raising and change nothing.
C16_UnknownContextId ==
    [][ /\ (Completed("update_context") /\ last'.context_id \notin DOMAIN contexts)
           => /\ last'.outcome = "ValueError"
              /\ last'.context_id \notin DOMAIN contexts'
              /\ UNCHANGED <<contexts, update_history, processed>>
        /\ \A op \in {"retrieve_context", "get_context"} :
              (Completed(op) /\ last'.context_id \notin DOMAIN contexts)
              => /\ last'.outcome = "returned"
                 /\ last'.returned_context = NoContext
                 /\ UNCHANGED <<contexts, update_history, processed>> ]_vars

\* get_context has returned None for an id that an update_context call, still
\* in flight with a non-empty batch, is about to reject as not found
C16_Witness ==
    /\ last.op = "get_context"
    /\ last.outcome = "returned"
    /\ last.returned_context = NoContext
    /\ last.context_id \notin DOMAIN contexts
    /\ \E task \in InUpdate :
          /\ tasks[task].context_id = last.context_id
          /\ tasks[task].batch # <<>>
          /\ Range(tasks[task].batch) \cap processed = {}

\* C17: create_context(project) returns; the Context it stores is new, has
\* project_id = project.id, version 1, empty version_history and
\* update_history, exactly one symbolic_data entry, under the key
\* project_requirements and of symbolic type requirements, exactly one
\* symbolic reference, requirements_ref, naming that entry, and
\* read_access = write_access = [project.id].
C17_CreateContextResult ==
    [][ Completed("create_context")
        => LET cid == last'.context_id
               project == projects[last'.project]
               ctx == contexts'[cid]
           IN  /\ last'.outcome = "returned"
               /\ cid \notin DOMAIN contexts
               /\ cid \in DOMAIN contexts'
               /\ ctx.project_id = project.id
               /\ ctx.version = 1
               /\ ctx.version_history = <<>>
               /\ ctx.update_history = <<>>
               /\ DOMAIN ctx.symbolic_data = {"project_requirements"}
               /\ ctx.symbolic_data["project_requirements"].symbolic_type = "requirements"
               /\ DOMAIN ctx.symbolic_references = {"requirements_ref"}
               /\ ctx.symbolic_references["requirements_ref"].symbolic_name
                     = "project_requirements"
               /\ ctx.read_access = <<project.id>>
               /\ ctx.write_access = <<project.id>> ]_vars

\* the conditions on a context that C19 lists (timestamps compared as instants)
ListedConditions(context) ==
    LET sd == context.symbolic_data
        refs == context.symbolic_references
    IN  /\ \A k \in DOMAIN sd :
              /\ sd[k].symbolic_name # NoneStr
              /\ sd[k].symbolic_type # NoneStr
              /\ sd[k].parent_symbolic_id # NoneStr
                 => sd[k].parent_symbolic_id \in DOMAIN sd
              /\ sd[k].child_symbolic_ids \subseteq DOMAIN sd
              /\ sd[k].related_symbolic_ids \subseteq DOMAIN sd
        /\ \A r \in DOMAIN refs :
              /\ refs[r].symbolic_name # NoneStr
              /\ refs[r].reference_type # NoneStr
              /\ refs[r].symbolic_name \in DOMAIN sd
        /\ context.project_id # NoneId
        /\ context.context_type \in {"spec_driven", "legacy", "migrated"}
        /\ context.version >= 1
        /\ context.created_at.t <= context.updated_at.t
        /\ Len(context.version_history) = context.version - 1
        /\ Len(context.update_history) = Len(context.version_history)

\* C19: find_inconsistencies(context) returns the empty list, and
\* is_consistent(context) returns True, exactly when the context meets every
\* listed condition (names and types non-empty, every relation and every
\* reference name a key of symbolic_data, project_id set, a valid
\* context_type, version >= 1, created_at <= updated_at, and the two history
\* lengths matching the version).
C19_ConsistentIffConditions ==
    [][ /\ Completed("find_inconsistencies")
           => ((last'.outcome = "returned" /\ last'.errors = {})
               <=> ListedConditions(caller_context))
        /\ Completed("is_consistent")
           => ((last'.outcome = "returned" /\ last'.is_consistent)
               <=> ListedConditions(caller_context)) ]_vars

\* C20: validate_update leaves the context it is given as it was: its maps,
\* version, update_history, updated_at and every other field, whatever the
\* updates are and however the call ends.
C20_ValidateUpdateFrame ==
    [][ Completed("validate_update") => caller_context' = caller_context ]_vars

\* validate_update has applied a non-empty list of updates to its copy and
\* returned the violations it found there
C20_Witness ==
    /\ last.op = "validate_update"
    /\ last.outcome = "returned"
    /\ last.updates # <<>>
    /\ last.errors # {}
    /\ \E i \in DOMAIN last.updates : last.updates[i].type = "requirements"
    /\ "new_req" \notin DOMAIN caller_context.requirements

\* C21: resolving a SymbolicReference that the caller has resolved before
\* returns the same data as the earlier call, performs no further underlying
\* resolution, and leaves the reference's resolved_at as it was.
C21_IdempotentResolution ==
    [][ \A ref \in DOMAIN references :
            (/\ Completed("resolve_symbolic_reference")
             /\ last'.reference = ref
             /\ resolved_data[ref] # NoData)
            => /\ last'.data = resolved_data[ref]
               /\ resolutions' = resolutions
               /\ references'[ref].resolved_at = references[ref].resolved_at ]_vars

\* a reference resolved a second time, the first resolution having stamped it
C21_Witness ==
    /\ last.op = "resolve_symbolic_reference"
    /\ calls >= 2
    /\ resolutions = 1
    /\ references[last.reference].resolved
    /\ references[last.reference].resolved_at.t < calls
    /\ last.data = _perform_resolution(references[last.reference])

\* s is an initial segment of t
IsPrefix(s, t) == Len(s) <= Len(t) /\ \A i \in DOMAIN s : s[i] = t[i]

\* C22: completed_phases is append-only and ordered: every step leaves the
\* old list as an initial segment of the new one, a successful transition
\* appends exactly one entry (the phase left), and the entries are always in
\* non-decreasing phase order.
C22_CompletedPhasesAppendOnly ==
    /\ [](\A wid \in DOMAIN workflows :
            LET completed == workflows[wid].completed_phases IN
            \A i, j \in DOMAIN completed :
                i <= j => /\ PhaseRank(completed[i]) >= 0
                          /\ PhaseRank(completed[i]) <= PhaseRank(completed[j]))
    /\ [][ \A wid \in DOMAIN workflows :
            /\ wid \in DOMAIN workflows'
            /\ IsPrefix(workflows[wid].completed_phases, workflows'[wid].completed_phases)
            /\ (/\ Completed("transition_to_phase")
                /\ last'.outcome = "returned"
                /\ last'.workflow_id = wid)
               => workflows'[wid].completed_phases
                    = Append(workflows[wid].completed_phases, workflows[wid].current_phase) ]_vars

\* two successful transitions have recorded two different phases, in order
C22_Witness ==
    /\ last.op = "transition_to_phase"
    /\ last.outcome = "returned"
    /\ last.workflow_id \in DOMAIN workflows
    /\ workflows[last.workflow_id].completed_phases = <<DISCOVERY, PLANNING>>

\* C23: every successful transition creates a new WorkflowState, every
\* WorkflowState created so far is still held by the orchestrator, and a
\* WorkflowState that is no longer the current one of its workflow is never
\* changed again.
C23_StatesRetainedAndFrozen ==
    /\ [](\A sid \in DOMAIN state_objs : sid \in Range(workflow_states))
    /\ [][ /\ (Completed("transition_to_phase") /\ last'.outcome = "returned")
               => /\ workflow_states'[last'.workflow_id] \notin DOMAIN state_objs
                  /\ workflow_states'[last'.workflow_id] \in DOMAIN state_objs'
            /\ \A sid \in DOMAIN state_objs :
                  sid \notin Range(workflow_states)
                  => sid \in DOMAIN state_objs' /\ state_objs'[sid] = state_objs[sid] ]_vars

\* the fields maintain_symbolic_consistency may write
ConsistencyFields == {"consistency_status", "consistency_errors", "last_consistency_check"}

\* C24: maintain_symbolic_consistency on a context that breaks one of the
\* conditions the validator checks sets consistency_status to "resolving",
\* stores a non-empty violation list in consistency_errors and stamps
\* last_consistency_check; on a context that breaks none it changes nothing;
\* in both cases every other field keeps its value.
C24_MaintainFrame ==
    [][ Completed("maintain_symbolic_consistency")
        => /\ \A field \in (DOMAIN caller_context) \ ConsistencyFields :
                 caller_context'[field] = caller_context[field]
           /\ ~ ListedConditions(caller_context)
              => /\ caller_context'.consistency_status = "resolving"
                 /\ caller_context'.consistency_errors # {}
                 /\ caller_context'.last_consistency_check = NaiveNow(calls')
           /\ ListedConditions(caller_context)
              => caller_context' = caller_context ]_vars

\* the phase the state manager tracks for a workflow
ManagerPhase(mgr, wid) == mgr.objs[mgr.states[wid]].current_phase

\* C25: over the eight phases the state manager's check accepts a pair
\* (current, target) exactly when the orchestrator's check does; a workflow
\* that both trackers hold in the same phase is moved by transition_state
\* exactly when transition_to_phase moves it, for every target phase, and
\* both are in the same phase afterwards.
C25_TrackersAgree ==
    /\ [](calls = 0 =>   \* the checks read nothing but their arguments
            \A current \in Range(phase_order), target \in Range(phase_order) :
                _validate_transition([current_phase |-> current], target)
                <=> _validate_phase_transition([current_phase |-> current], target))
    /\ [](\A wid \in (DOMAIN workflows) \cap (DOMAIN states) :
            workflows[wid].current_phase = ManagerPhase(Manager, wid)
            => \A target \in Range(phase_order) :
                 LET a == transition_to_phase(Orch, wid, target, "User request", calls + 1)
                     b == transition_state(Manager, wid, target, calls + 1)
                 IN  /\ (a.outcome = "returned")
                        <=> (b.outcome = "returned" /\ b.state_id # NoneId)
                     /\ a.orch.workflows[wid].current_phase = ManagerPhase(b.mgr, wid))
    /\ [][ \A wid \in (DOMAIN workflows) \cap (DOMAIN states) :
            (/\ Completed("transition_state")
             /\ last'.workflow_id = wid
             /\ last'.target_phase \in Range(phase_order)
             /\ workflows[wid].current_phase = ManagerPhase(Manager, wid))
            => ((last'.outcome = "returned" /\ last'.state_id # NoneId)
                <=> _validate_phase_transition(workflows[wid], last'.target_phase)) ]_vars

\* the state manager has moved a workflow from DISCOVERY, the phase the
\* orchestrator holds it in, to a later phase
C25_Witness ==
    /\ last.op = "transition_state"
    /\ last.outcome = "returned"
    /\ last.workflow_id \in (DOMAIN workflows) \cap (DOMAIN states)
    /\ last.state_id = states[last.workflow_id]
    /\ workflows[last.workflow_id].current_phase = DISCOVERY
    /\ ManagerPhase(Manager, last.workflow_id) = TESTING
    /\ Len(state_history[last.workflow_id]) = 3

\* C26: each update_artifact on a stored artifact leaves it with the version
\* _increment_version gives for the old one: the patch plus one with major and
\* minor kept when there are three components and a numeric patch, the old
\* version with ".1" appended otherwise
C26_UpdateIncrementsVersion ==
    [][(Completed("update_artifact") /\ last'.artifact_id \in DOMAIN artifacts)
        => artifacts'[last'.artifact_id].version
             = _increment_version(artifacts[last'.artifact_id].version)]_vars

\* C27: every stored artifact carries the SHA-256 digest and the byte length
\* of its current content
C27_ChecksumOfContent ==
    \A artifact_id \in DOMAIN artifacts :
        /\ artifacts[artifact_id].checksum = sha256(artifacts[artifact_id].content)
        /\ artifacts[artifact_id].file_size = byte_length(artifacts[artifact_id].content)

\* C28: add_artifact_relationship(A, B, "supersedes") on two stored artifacts
\* returns True, appends B to A.supersedes and sets B.superseded_by to A;
\* B.supersedes and A.superseded_by stay as they were
C28_SupersedesAsymmetric ==
    [][\A A \in DOMAIN artifacts, B \in DOMAIN artifacts :
        (/\ A # B
         /\ Completed("add_artifact_relationship")
         /\ last'.artifact_id = A
         /\ last'.related_artifact_id = B
         /\ last'.relationship_type = "supersedes")
        => /\ last'.value = TRUE
           /\ artifacts'[A].supersedes = Append(artifacts[A].supersedes, B)
           /\ artifacts[A].supersedes = <<>> => artifacts'[A].supersedes = <<B>>
           /\ artifacts'[B].superseded_by = A
           /\ artifacts'[B].supersedes = artifacts[B].supersedes
           /\ artifacts'[A].superseded_by = artifacts[A].superseded_by]_vars

C28_Witness ==
    /\ last.op = "add_artifact_relationship"
    /\ last.relationship_type = "supersedes"
    /\ last.artifact_id # last.related_artifact_id
    /\ last.value = TRUE
    /\ artifacts[last.artifact_id].supersedes = <<last.related_artifact_id>>
    /\ artifacts[last.related_artifact_id].superseded_by = last.artifact_id
    /\ artifacts[last.related_artifact_id].supersedes = <<>>
    /\ artifacts[last.artifact_id].superseded_by = NoneId

NoDuplicates(list) == \A i \in DOMAIN list, j \in DOMAIN list : list[i] = list[j] => i = j

\* C29: a dependency or related relationship that is added again changes no
\* stored artifact and returns True, and no dependencies or related_artifacts
\* list holds an id twice
C29_RelationshipIdempotent ==
    /\ [](\A artifact_id \in DOMAIN artifacts :
            /\ NoDuplicates(artifacts[artifact_id].dependencies)
            /\ NoDuplicates(artifacts[artifact_id].related_artifacts))
    /\ [][(/\ Completed("add_artifact_relationship")
           /\ last'.relationship_type \in {"dependency", "related"}
           /\ last'.repeated)
          => (artifacts' = artifacts /\ last'.value = TRUE)]_vars

C29_Witness ==
    /\ last.op = "add_artifact_relationship"
    /\ last.relationship_type = "dependency"
    /\ last.repeated
    /\ last.artifact_id # last.related_artifact_id
    /\ artifacts[last.artifact_id].dependencies = <<last.related_artifact_id>>

\* the six maps _apply_updates routes update_data to
MapFields ==
    {"requirements", "specifications", "architecture", "implementation",
     "symbolic_data", "symbolic_references"}

\* the positions of a batch whose update is of the given type
Routed(batch, field) ==
    {i \in DOMAIN batch : ContextUpdates[batch[i]].update_type = field}

\* the positions of a batch whose update sets key k of the given map
Setting(batch, field, k) ==
    {i \in Routed(batch, field) : k \in DOMAIN ContextUpdates[batch[i]].update_data}

Latest(positions) == CHOOSE i \in positions : \A j \in positions : j <= i

\* `after` holds, for every map, the keys of `before` and of the updates routed
\* to the map, each with the value of the last update of the batch that sets
\* it, or with its previous value when no update does
MergedInOrder(before, batch, after) ==
    \A field \in MapFields :
        LET keys == (DOMAIN before[field]) \cup
                    UNION {DOMAIN ContextUpdates[batch[i]].update_data :
                             i \in Routed(batch, field)}
        IN  /\ DOMAIN after[field] = keys
            /\ \A k \in keys :
                 after[field][k] =
                    IF Setting(batch, field, k) = {}
                    THEN before[field][k]
                    ELSE ContextUpdates[batch[Latest(Setting(batch, field, k))]].update_data[k]

LastOf(list) == list[Len(list)]

\* the later of two phases in phase order
Later(p, q) == IF PhaseRank(q) >= PhaseRank(p) THEN q ELSE p

\* the tasks inside `async with self.workflow_lock`
InWorkflowLock ==
    {task \in Tasks : tasks[task].pc = "locked" /\ tasks[task].op # "update_context"}

\* C31: two transition_to_phase calls for one workflow that are in flight
\* together run their bodies one after the other under workflow_lock; when
\* both targets are at or ahead of the phase the first body found, the
\* workflow ends in the later target, and the second call is rejected and
\* changes nothing when its target is behind the first one's
C31_ConcurrentTransitions ==
    /\ [](/\ Cardinality(InWorkflowLock) <= 1
          /\ \A task \in InWorkflowLock : workflow_lock = task)
    /\ [][(/\ Completed("transition_to_phase")
           /\ last'.raced
           /\ last.outcome = "returned"
           /\ PhaseRank(last'.target_phase)
                >= PhaseRank(LastOf(transition_history[last.workflow_id]).from_phase))
          => LET wid == last.workflow_id IN
             /\ workflows'[wid].current_phase = Later(last.target_phase, last'.target_phase)
             /\ PhaseRank(last'.target_phase) < PhaseRank(last.target_phase)
                  => (last'.outcome = "WorkflowOrchestrationError"
                      /\ UNCHANGED orch_vars)
             /\ PhaseRank(last'.target_phase) >= PhaseRank(last.target_phase)
                  => last'.outcome = "returned"]_vars

\* the call for DISCOVERY waited while the call for PLANNING ran, and was
\* rejected after it
C31_Witness ==
    /\ last.op = "transition_to_phase"
    /\ last.raced
    /\ last.target_phase = DISCOVERY
    /\ last.outcome = "WorkflowOrchestrationError"
    /\ last.workflow_id \in DOMAIN workflows
    /\ workflows[last.workflow_id].current_phase = PLANNING
    /\ Len(transition_history[last.workflow_id]) = 1

\* C32: under fair scheduling every start_workflow, transition_to_phase and
\* update_context call that was made ends, by returning or by raising, and
\* every lock that is held is released again; a task holds at most one of the
\* two locks and holds none while it waits for one
C32_CallsComplete ==
    /\ \A task \in Tasks : (tasks[task].pc # "idle") ~> (tasks[task].pc = "idle")
    /\ (workflow_lock # NoTask) ~> (workflow_lock = NoTask)
    /\ (context_lock # NoTask) ~> (context_lock = NoTask)
    /\ [](\A task \in Tasks :
            /\ ~(workflow_lock = task /\ context_lock = task)
            /\ tasks[task].pc \in {"idle", "waiting"}
                 => (workflow_lock # task /\ context_lock # task))

\* an update_context call waits at context_lock while another one, which
\* will raise, holds it
C32_Witness ==
    \E a \in Tasks, b \in Tasks :
        /\ a # b
        /\ tasks[a].op = "update_context" /\ tasks[a].pc = "fetched"
        /\ context_lock = a
        /\ tasks[a].context_id \notin DOMAIN contexts
        /\ tasks[b].op = "update_context" /\ tasks[b].pc = "waiting"
        /\ calls > 0 /\ last.outcome # "returned"

\* C33: the progress_percentage get_workflow_status reports for a stored
\* workflow lies between 0 and 100 (0 and 1000 tenths of a percent)
C33_ProgressWithinBounds ==
    (last.op = "get_workflow_status" /\ last.value)
        => (last.progress_percentage >= 0 /\ last.progress_percentage <= 1000)

\* C34: every workflow has as many transition records as phase_history
\* entries and completed phases, and one state id more; its transition
\* records form a chain that starts in DISCOVERY and ends in current_phase
C34_HistoriesAgree ==
    \A w \in DOMAIN workflows :
        LET th == transition_history[w]
            n == Len(th)
        IN  /\ Len(workflows[w].phase_history) = n
            /\ Len(workflows[w].completed_phases) = n
            /\ Len(workflows[w].state_history) - 1 = n
            /\ n > 0 => th[1].from_phase = DISCOVERY
            /\ \A i \in 2..n : th[i].from_phase = th[i - 1].to_phase
            /\ n > 0 => th[n].to_phase = workflows[w].current_phase

\* a workflow asked for DISCOVERY again, moved to PLANNING and asked for
\* PLANNING again
C34_Witness ==
    \E w \in DOMAIN workflows :
        /\ Len(transition_history[w]) = 3
        /\ transition_history[w][1].to_phase = DISCOVERY
        /\ transition_history[w][2].to_phase = PLANNING
        /\ transition_history[w][3].to_phase = PLANNING
        /\ workflows[w].current_phase = PLANNING
        /\ Len(workflows[w].state_history) = 4

\* C35: a successful transition_to_phase stamps the outgoing WorkflowState
\* with phase_completed_at and leaves its current_phase, the phase the
\* workflow is moved from; the new WorkflowState carries the target phase
C35_OutgoingStateKeepsPhase ==
    [][(Completed("transition_to_phase") /\ last'.outcome = "returned")
        => LET w == last'.workflow_id
               outgoing == workflow_states[w]
           IN  /\ state_objs'[outgoing].phase_completed_at # NoTime
               /\ state_objs'[outgoing].current_phase = state_objs[outgoing].current_phase
               /\ state_objs'[outgoing].current_phase = workflows[w].current_phase
               /\ state_objs'[workflow_states'[w]].current_phase = last'.target_phase
               /\ workflow_states'[w] # outgoing]_vars

\* C37: after resolve_symbolic_reference(reference) has returned, the
\* reference object that was passed has resolved = TRUE and a resolved_at,
\* whether the resolver found its reference_id in the cache or not
C37_ReferenceMarkedResolved ==
    [][Completed("resolve_symbolic_reference")
        => /\ references'[last'.reference].resolved
           /\ references'[last'.reference].resolved_at # NoTime]_vars

\* C38: when update_state raises ValueError because the resulting state fails
\* validation, the tracked state, the state objects and the state_history are
\* what they were before the call
C38_RejectedUpdateLeavesState ==
    [][(Completed("update_state") /\ last'.outcome = "ValueError")
       => /\ states' = states
          /\ state_history' = state_history
          /\ manager_objs' = manager_objs]_vars

\* total_states of the summary, 0 while the workflow has no tracked state
TotalStates(mgr, wid) ==
    IF wid \in DOMAIN mgr.states THEN get_state_summary(mgr, wid).total_states ELSE 0

\* the manager after the step
ManagerAfter == [states |-> states', state_history |-> state_history', objs |-> manager_objs']

\* C39: a create_state or transition_state that returns a state adds exactly
\* one entry to the workflow's state_history, the entries of a history are
\* distinct states, get_state_summary counts one more state, and a
\* transition_state that raises adds none
C39_OneEntryPerState ==
    [][/\ ((Completed("create_state") \/ Completed("transition_state"))
           /\ last'.outcome = "returned" /\ last'.state_id # NoneId)
          => /\ TotalStates(ManagerAfter, last'.workflow_id)
                   = TotalStates(Manager, last'.workflow_id) + 1
             /\ NoDuplicates(state_history'[last'.workflow_id])
       /\ (Completed("transition_state") /\ last'.outcome # "returned")
          => state_history' = state_history]_vars

\* C40: supersedes and superseded_by agree on every pair of stored artifacts:
\* B is in A.supersedes exactly when B.superseded_by is A
C40_SupersedesConsistent ==
    \A A \in DOMAIN artifacts, B \in DOMAIN artifacts :
        (B \in Range(artifacts[A].supersedes)) <=> (artifacts[B].superseded_by = A)

====
